---- MODULE Spec2Model ----
(***************************************************************************)
(* State-machine model of the content-stream pipeline of pdfplumber-golang. *)
(*                                                                         *)
(* Two interpreters live in the repository and both are modelled:          *)
(*   - pdf.ContentStreamParser   (pkg/pdf/content_stream_parser.go),       *)
(*     record variable p, one operator per handler method;                 *)
(*   - content.ContentExtractor  (package content, with content.StateStack *)
(*     of pkg/content/state.go), record variable e, one operator per case   *)
(*     of its processOperator switch.                                      *)
(* The variable impl says which of them the behaviour runs.                *)
(*                                                                         *)
(* float64 values are fixed-point numbers with two decimals (Fix, MulF).    *)
(* Go pointers to graphics states are addresses into a heap (a sequence of *)
(* objects), so that sharing between the current state and a saved state   *)
(* is something the model can express.  Slices are sequences: no operator  *)
(* of either interpreter writes an element of an existing slice in place.  *)
(***************************************************************************)
EXTENDS Integers, Sequences, FiniteSets, TLC

VARIABLES
    impl,       \* "parser" | "extractor" | "tokenizer": the component that runs
    fuel,       \* instructions (tokenizer: loop iterations) the behaviour may still take
    operands,   \* Parse / processContentStream: the operands accumulated so far
    last,       \* the operator dispatched last and the operand list it received
    p,          \* the ContentStreamParser object
    e,          \* the ContentExtractor object
    hist,       \* history: the state recorded at each unmatched q, the path built
    tz,         \* tokenize: the bytes.Reader and the tokens produced so far
    cmapRun,    \* the ToUnicodeCMap under construction and the last call on it
    page,       \* the objects of a page and what has been extracted from them
    doc,        \* the document two pages share and the two goroutines that interpret them
    calc,       \* the matrices given to a matrix product and the products computed
    lx          \* parser.Lexer on the bytes of an object, and what parseObject returned

vars == <<impl, fuel, operands, last, p, e, hist, tz, cmapRun, page, doc, calc, lx>>

----------------------------------------------------------------------------
(* Numbers *)

Fix(n) == n * 100
MulF(a, b) == (a * b) \div 100

----------------------------------------------------------------------------
(* Tokens.  k: "num" | "name" | "str" | "id" | "[" | "]" | "array"         *)

(* n: the value of a number; text: the characters of                       *)
(* the token (of a string: the characters between its delimiters, of a     *)
(* name: "/" and the characters after it; s: the text of an identifier;    *)
(* elems: the elements of an array the extractor's lexer has read.         *)

Tok(k, n, s, text, elems) == [k |-> k, n |-> n, s |-> s, text |-> text, elems |-> elems]

Digit(d) == <<"0", "1", "2", "3", "4", "5", "6", "7", "8", "9">>[d + 1]

RECURSIVE NumText(_)
NumText(n) ==
    IF n < 0 THEN <<"-">> \o NumText(-n)
    ELSE IF n < 10 THEN <<Digit(n)>>
    ELSE NumText(n \div 10) \o <<Digit(n % 10)>>

Num(n) == Tok("num", Fix(n), "", NumText(n), <<>>)
Name(text) == Tok("name", 0, "", <<"/">> \o text, <<>>)
Str(text) == Tok("str", 0, "", text, <<>>)
Ident(s, text) == Tok("id", 0, s, text, <<>>)

\* the token as the parser's tokenize returns it: a string keeps its parentheses
RawText(t) == IF t.k = "str" THEN <<"(">> \o t.text \o <<")">> ELSE t.text

\* strconv.ParseFloat with the error dropped: 0 for anything but a number
parseFloat(t) == IF t.k = "num" THEN t.n ELSE 0
parseInt(t) == IF t.k = "num" /\ t.n % 100 = 0 THEN t.n \div 100 ELSE 0
toFloat(t) == IF t.k = "num" THEN t.n ELSE 0

----------------------------------------------------------------------------
(* Matrices *)

Matrix(a, b, c, d, x, y) == [A |-> a, B |-> b, C |-> c, D |-> d, E |-> x, F |-> y]
IdentityMatrix == Matrix(Fix(1), 0, 0, Fix(1), 0, 0)
TranslationMatrix(tx, ty) == Matrix(Fix(1), 0, 0, Fix(1), tx, ty)
Translate(tx, ty) == Matrix(Fix(1), 0, 0, Fix(1), tx, ty)

MultiplyMatrix(m1, m2) ==
    Matrix(MulF(m1.A, m2.A) + MulF(m1.B, m2.C),
           MulF(m1.A, m2.B) + MulF(m1.B, m2.D),
           MulF(m1.C, m2.A) + MulF(m1.D, m2.C),
           MulF(m1.C, m2.B) + MulF(m1.D, m2.D),
           MulF(m1.E, m2.A) + MulF(m1.F, m2.C) + m2.E,
           MulF(m1.E, m2.B) + MulF(m1.F, m2.D) + m2.F)

\* the product without the translation of the second matrix
Multiply_NoTranslation(m, other) ==
    Matrix(MulF(m.A, other.A) + MulF(m.B, other.C),
           MulF(m.A, other.B) + MulF(m.B, other.D),
           MulF(m.C, other.A) + MulF(m.D, other.C),
           MulF(m.C, other.B) + MulF(m.D, other.D),
           MulF(m.E, other.A) + MulF(m.F, other.C),
           MulF(m.E, other.B) + MulF(m.F, other.D))

Multiply(m, other) ==
    Matrix(MulF(m.A, other.A) + MulF(m.B, other.C),
           MulF(m.A, other.B) + MulF(m.B, other.D),
           MulF(m.C, other.A) + MulF(m.D, other.C),
           MulF(m.C, other.B) + MulF(m.D, other.D),
           MulF(m.E, other.A) + MulF(m.F, other.C) + other.E,
           MulF(m.E, other.B) + MulF(m.F, other.D) + other.F)

\* Matrix.Transform, as a point
Transform(m, x, y) ==
    [X |-> MulF(m.A, x) + MulF(m.C, y) + m.E,
     Y |-> MulF(m.B, x) + MulF(m.D, y) + m.F]

Min(a, b) == IF a < b THEN a ELSE b
Max(a, b) == IF a > b THEN a ELSE b

----------------------------------------------------------------------------
(* Output primitives (package pdf) *)

Color(r, g, b) == [R |-> r, G |-> g, B |-> b, A |-> 255]
\* uint8(x * 255) of a float x in [0, 1]
ToUint8(x) == ((x * 255) \div 100) % 256

LineObject(x0, y0, x1, y1, width, strokeColor) ==
    [X0 |-> x0, Y0 |-> y0, X1 |-> x1, Y1 |-> y1, Width |-> width,
     StrokeColor |-> strokeColor]

RectObject(x0, y0, x1, y1, width, strokeColor, fillColor, filled, stroked, nonStroking) ==
    [X0 |-> x0, Y0 |-> y0, X1 |-> x1, Y1 |-> y1, Width |-> width,
     StrokeColor |-> strokeColor, FillColor |-> fillColor,
     Filled |-> filled, Stroked |-> stroked, NonStroking |-> nonStroking]

CharObject(text, font, fontSize, x0, y0, x1, y1, width, height, color) ==
    [Text |-> text, Font |-> font, FontSize |-> fontSize,
     X0 |-> x0, Y0 |-> y0, X1 |-> x1, Y1 |-> y1, Width |-> width, Height |-> height,
     Color |-> color]

PathElement(type, points) == [Type |-> type, Points |-> points]
Point(x, y) == [X |-> x, Y |-> y]

----------------------------------------------------------------------------
(* pdf.ToUnicodeCMap *)
(* Text is a sequence of bytes (0..255), code points are integers.  A CMap  *)
(* stream is the sequence of its lexemes: a count, the four keywords, a     *)
(* hex value <...> with its digits, a bracketed array, anything else.       *)

\* string(rune(c)): the UTF-8 bytes of the code point c; a surrogate half or
\* a value above U+10FFFF is written as U+FFFD
RuneString(c) ==
    IF c < 128 THEN <<c>>
    ELSE IF c < 2048 THEN <<192 + (c \div 64), 128 + (c % 64)>>
    ELSE IF (c >= 55296 /\ c <= 57343) \/ c > 1114111 THEN <<239, 191, 189>>
    ELSE IF c < 65536
    THEN <<224 + (c \div 4096), 128 + ((c \div 64) % 64), 128 + (c % 64)>>
    ELSE <<240 + (c \div 262144), 128 + ((c \div 4096) % 64),
           128 + ((c \div 64) % 64), 128 + (c % 64)>>

CMapTok(k, digits) == [k |-> k, digits |-> digits]
Hex(digits) == CMapTok("hex", digits)

\* hex.DecodeString: an odd number of digits is an error
hexDecodeString(digits) ==
    [err   |-> Len(digits) % 2 # 0,
     bytes |-> [i \in 1..(Len(digits) \div 2) |-> digits[2 * i - 1] * 16 + digits[2 * i]]]

cmapRange(startCID, endCID, startUnicode) ==
    [startCID |-> startCID, endCID |-> endCID, startUnicode |-> startUnicode,
     unicodeArray |-> <<>>]

NewToUnicodeCMap == [cidToUnicode |-> <<>>, ranges |-> <<>>]

\* m[k] = v of a Go map
MapPut(m, k, v) == [c \in DOMAIN m \cup {k} |-> IF c = k THEN v ELSE m[c]]

\* one byte is the CID itself, two or more give the CID of the first two; the
\* zero value of the declaration stays when there is no byte
bytesToCID(bytes) ==
    IF Len(bytes) = 1 THEN bytes[1]
    ELSE IF Len(bytes) >= 2 THEN bytes[1] * 256 + bytes[2]
    ELSE 0

bytesToUnicode(data) ==
    IF Len(data) = 0 THEN <<>>
    ELSE IF Len(data) = 1 THEN RuneString(data[1])
    ELSE IF Len(data) = 2 THEN RuneString(data[1] * 256 + data[2])
    ELSE IF Len(data) = 4
    THEN LET high == data[1] * 256 + data[2]
             low  == data[3] * 256 + data[4]
         IN  IF high >= 55296 /\ high <= 56319 /\ low >= 56320 /\ low <= 57343
             THEN RuneString(65536 + (high % 1024) * 1024 + (low % 1024))
             ELSE RuneString(high * 65536 + low)
    ELSE data

\* The index after the longest run of mappings that starts at lexeme j: pairs
\* <src> <dst> in a bfchar block, triples <start> <end> (<dst> | [...]) in a
\* bfrange block.
RECURSIVE mappingsEnd(_, _, _)
mappingsEnd(content, j, block) ==
    LET n == IF block = "bfchar" THEN 2 ELSE 3
    IN  IF /\ j + n - 1 <= Len(content)
           /\ content[j].k = "hex"
           /\ content[j + 1].k = "hex"
           /\ (block = "bfrange" => content[j + 2].k \in {"hex", "array"})
        THEN mappingsEnd(content, j + n, block)
        ELSE j

\* FindAllStringSubmatch of the block expression: a match is a count, the
\* begin keyword, one or more mappings and the end keyword; the matches are
\* found left to right and do not overlap.  The result holds the mappings of
\* each match.
RECURSIVE FindAllStringSubmatch(_, _, _)
FindAllStringSubmatch(content, i, block) ==
    IF i > Len(content) THEN <<>>
    ELSE LET j == mappingsEnd(content, i + 2, block)
         IN  IF /\ i + 1 <= Len(content)
                /\ content[i].k = "int"
                /\ content[i + 1].k = (IF block = "bfchar" THEN "beginbfchar" ELSE "beginbfrange")
                /\ j > i + 2
                /\ j <= Len(content)
                /\ content[j].k = (IF block = "bfchar" THEN "endbfchar" ELSE "endbfrange")
             THEN <<SubSeq(content, i + 2, j - 1)>> \o FindAllStringSubmatch(content, j + 1, block)
             ELSE FindAllStringSubmatch(content, i + 1, block)

\* the loop over the mappings of one bfchar match
RECURSIVE parseBeginBFChar_Mappings(_, _)
parseBeginBFChar_Mappings(cmap, mappings) ==
    IF mappings = <<>> THEN cmap
    ELSE LET src  == hexDecodeString(mappings[1].digits)
             dst  == hexDecodeString(mappings[2].digits)
             rest == SubSeq(mappings, 3, Len(mappings))
         IN  IF src.err \/ Len(src.bytes) = 0 \/ dst.err
             THEN parseBeginBFChar_Mappings(cmap, rest)
             ELSE parseBeginBFChar_Mappings(
                      [cmap EXCEPT !.cidToUnicode =
                          MapPut(@, bytesToCID(src.bytes), bytesToUnicode(dst.bytes))],
                      rest)

RECURSIVE parseBeginBFChar_Matches(_, _)
parseBeginBFChar_Matches(cmap, matches) ==
    IF matches = <<>> THEN cmap
    ELSE parseBeginBFChar_Matches(parseBeginBFChar_Mappings(cmap, matches[1]), Tail(matches))

\* every path of the function returns a nil error
parseBeginBFChar(cmap, content) ==
    [cmap |-> parseBeginBFChar_Matches(cmap, FindAllStringSubmatch(content, 1, "bfchar")),
     err  |-> "nil"]

\* the loop over the mappings of one bfrange match; the array form is skipped
RECURSIVE parseBeginBFRange_Ranges(_, _)
parseBeginBFRange_Ranges(cmap, ranges) ==
    IF ranges = <<>> THEN cmap
    ELSE LET start == hexDecodeString(ranges[1].digits)
             end   == hexDecodeString(ranges[2].digits)
             dst   == hexDecodeString(ranges[3].digits)
             rest  == SubSeq(ranges, 4, Len(ranges))
         IN  IF start.err \/ end.err \/ ranges[3].k # "hex" \/ dst.err
             THEN parseBeginBFRange_Ranges(cmap, rest)
             ELSE parseBeginBFRange_Ranges(
                      [cmap EXCEPT !.ranges =
                          Append(@, cmapRange(bytesToCID(start.bytes), bytesToCID(end.bytes),
                                              bytesToCID(dst.bytes)))],
                      rest)

RECURSIVE parseBeginBFRange_Matches(_, _)
parseBeginBFRange_Matches(cmap, matches) ==
    IF matches = <<>> THEN cmap
    ELSE parseBeginBFRange_Matches(parseBeginBFRange_Ranges(cmap, matches[1]), Tail(matches))

parseBeginBFRange(cmap, content) ==
    [cmap |-> parseBeginBFRange_Matches(cmap, FindAllStringSubmatch(content, 1, "bfrange")),
     err  |-> "nil"]

\* ToUnicodeCMap.Parse: all bfchar blocks, then all bfrange blocks
CMapParse(cmap, content) ==
    LET chars  == parseBeginBFChar(cmap, content)
        ranges == parseBeginBFRange(chars.cmap, content)
    IN  IF chars.err # "nil"
        THEN [cmap |-> chars.cmap, err |-> "failed to parse beginbfchar"]
        ELSE IF ranges.err # "nil"
        THEN [cmap |-> ranges.cmap, err |-> "failed to parse beginbfrange"]
        ELSE [cmap |-> ranges.cmap, err |-> "nil"]

NotFound == [unicode |-> <<>>, ok |-> FALSE]

\* no call made yet; a new CMap on which Parse has not run
NoCall == [fn |-> "", cid |-> 0, data |-> <<>>, encoding |-> "",
           found |-> NotFound, text |-> <<>>]
NoCMapRun == [obj |-> NewToUnicodeCMap, blocks |-> <<>>, err |-> "nil", call |-> NoCall]

\* the variant that lets a later range override an earlier one
RECURSIVE MapCIDToUnicode_Ranges_LastWins(_, _, _)
MapCIDToUnicode_Ranges_LastWins(ranges, k, cid) ==
    IF k > Len(ranges) THEN NotFound
    ELSE LET r     == ranges[k]
             later == MapCIDToUnicode_Ranges_LastWins(ranges, k + 1, cid)
         IN  IF later.ok THEN later
             ELSE IF cid >= r.startCID /\ cid <= r.endCID
             THEN [unicode |-> RuneString((r.startUnicode + (cid - r.startCID)) % 65536),
                   ok |-> TRUE]
             ELSE NotFound

\* the loop over cmap.ranges from index k on; the arithmetic is uint16
RECURSIVE MapCIDToUnicode_Ranges(_, _, _)
MapCIDToUnicode_Ranges(ranges, k, cid) ==
    IF k > Len(ranges) THEN NotFound
    ELSE LET r == ranges[k]
         IN  IF cid >= r.startCID /\ cid <= r.endCID
             THEN IF Len(r.unicodeArray) > 0
                  THEN IF cid - r.startCID < Len(r.unicodeArray)
                       THEN [unicode |-> r.unicodeArray[cid - r.startCID + 1], ok |-> TRUE]
                       ELSE MapCIDToUnicode_Ranges(ranges, k + 1, cid)
                  ELSE [unicode |-> RuneString((r.startUnicode + (cid - r.startCID)) % 65536),
                        ok |-> TRUE]
             ELSE MapCIDToUnicode_Ranges(ranges, k + 1, cid)

MapCIDToUnicode(cmap, cid) ==
    IF cid \in DOMAIN cmap.cidToUnicode
    THEN [unicode |-> cmap.cidToUnicode[cid], ok |-> TRUE]
    ELSE MapCIDToUnicode_Ranges(cmap.ranges, 1, cid)

\* the loop shared by DecodeHexString and the Identity branch of decodeString:
\* two bytes at a time from index i on
RECURSIVE decodeTwoBytes(_, _, _)
decodeTwoBytes(cmap, data, i) ==
    LET one(b) == IF MapCIDToUnicode(cmap, b).ok THEN MapCIDToUnicode(cmap, b).unicode
                  ELSE <<b>>
    IN  IF i > Len(data) THEN <<>>
        ELSE IF i + 1 > Len(data) THEN one(data[i])
        ELSE LET two == MapCIDToUnicode(cmap, data[i] * 256 + data[i + 1])
             IN  (IF two.ok THEN two.unicode ELSE one(data[i]) \o one(data[i + 1]))
                 \o decodeTwoBytes(cmap, data, i + 2)

\* hexStr holds the digits between the angle brackets
DecodeHexString(cmap, hexStr) ==
    LET data == hexDecodeString(hexStr)
    IN  IF data.err THEN <<>> ELSE decodeTwoBytes(cmap, data.bytes, 1)

----------------------------------------------------------------------------
(* pdf.ContentStreamParser: construction *)

PDFColor(r, g, b, colorSpace) == [R |-> r, G |-> g, B |-> b, ColorSpace |-> colorSpace]

FontInfo(name, encoding, toUnicodeCMap) ==
    [Name |-> name, Encoding |-> encoding, ToUnicodeCMap |-> toUnicodeCMap]

\* a nil *FontInfo; a font pointer that is not nil is the font's key in fonts
NoFont == <<>>

\* a nil *ToUnicodeCMap
NoCMap == [nil |-> TRUE]

\* The font resources of the page under interpretation: F1, with no ToUnicode CMap
PageFonts == [n \in {<<"F", "1">>} |-> FontInfo(n, "WinAnsiEncoding", NoCMap)]

NewContentStreamParser ==
    [heap |-> << [CTM |-> IdentityMatrix,
                  StrokeColor |-> PDFColor(0, 0, 0, "Gray"),
                  FillColor |-> PDFColor(0, 0, 0, "Gray"),
                  LineWidth |-> Fix(1), LineCap |-> 0, LineJoin |-> 0,
                  MiterLimit |-> Fix(10), DashPattern |-> <<>>, DashPhase |-> 0] >>,
     graphicsState |-> 1,
     stateStack |-> <<>>,
     textState |-> [Font |-> NoFont, FontSize |-> Fix(12), CharSpace |-> 0, WordSpace |-> 0,
                    Scale |-> Fix(100), Leading |-> 0, Rise |-> 0, RenderMode |-> 0],
     textMatrix |-> IdentityMatrix,
     lineMatrix |-> IdentityMatrix,
     currentPath |-> <<>>,
     objects |-> [Chars |-> <<>>, Lines |-> <<>>, Rects |-> <<>>, Curves |-> <<>>],
     fonts |-> PageFonts]

\* *p.graphicsState
GS(sp) == sp.heap[sp.graphicsState]

----------------------------------------------------------------------------
(* pdf.ContentStreamParser: graphics state operators *)

\* saveGraphicsState without the copy: the pointer to the current state is pushed
saveGraphicsState_Alias(sp) ==
    [sp EXCEPT !.stateStack = Append(@, sp.graphicsState)]

saveGraphicsState(sp) ==
    LET stateCopy == sp.heap[sp.graphicsState]
    IN  [sp EXCEPT !.heap = Append(@, stateCopy),
                  !.stateStack = Append(@, Len(sp.heap) + 1)]

\* restoreGraphicsState without its first assignment: the stack is popped but
\* the current state stays
restoreGraphicsState_Keep(sp) ==
    IF Len(sp.stateStack) > 0
    THEN [sp EXCEPT !.stateStack = SubSeq(@, 1, Len(@) - 1)]
    ELSE sp

restoreGraphicsState(sp) ==
    IF Len(sp.stateStack) > 0
    THEN [sp EXCEPT !.graphicsState = sp.stateStack[Len(sp.stateStack)],
                   !.stateStack = SubSeq(@, 1, Len(@) - 1)]
    ELSE sp

concatenateMatrix(sp, args) ==
    IF Len(args) < 6 THEN sp
    ELSE LET m == Matrix(parseFloat(args[1]), parseFloat(args[2]), parseFloat(args[3]),
                         parseFloat(args[4]), parseFloat(args[5]), parseFloat(args[6]))
         IN  [sp EXCEPT !.heap[sp.graphicsState].CTM = MultiplyMatrix(m, @)]

setLineWidth(sp, args) ==
    IF Len(args) < 1 THEN sp
    ELSE [sp EXCEPT !.heap[sp.graphicsState].LineWidth = parseFloat(args[1])]

setLineCap(sp, args) ==
    IF Len(args) < 1 THEN sp
    ELSE [sp EXCEPT !.heap[sp.graphicsState].LineCap = parseInt(args[1])]

setLineJoin(sp, args) ==
    IF Len(args) < 1 THEN sp
    ELSE [sp EXCEPT !.heap[sp.graphicsState].LineJoin = parseInt(args[1])]

setMiterLimit(sp, args) ==
    IF Len(args) < 1 THEN sp
    ELSE [sp EXCEPT !.heap[sp.graphicsState].MiterLimit = parseFloat(args[1])]

\* the slice assigned is a fresh one: the array a saved copy shares is not written
setDashPattern(sp, args) ==
    IF Len(args) >= 2
    THEN [sp EXCEPT !.heap[sp.graphicsState].DashPattern = <<Fix(1)>>]
    ELSE sp

----------------------------------------------------------------------------
(* pdf.ContentStreamParser: color operators *)

setStrokeColorRGB(sp, args) ==
    IF Len(args) < 3 THEN sp
    ELSE [sp EXCEPT !.heap[sp.graphicsState].StrokeColor =
            PDFColor(parseFloat(args[1]), parseFloat(args[2]), parseFloat(args[3]), "RGB")]

setFillColorRGB(sp, args) ==
    IF Len(args) < 3 THEN sp
    ELSE [sp EXCEPT !.heap[sp.graphicsState].FillColor =
            PDFColor(parseFloat(args[1]), parseFloat(args[2]), parseFloat(args[3]), "RGB")]

setStrokeColorGray(sp, args) ==
    IF Len(args) < 1 THEN sp
    ELSE LET gray == parseFloat(args[1])
         IN  [sp EXCEPT !.heap[sp.graphicsState].StrokeColor = PDFColor(gray, gray, gray, "Gray")]

setFillColorGray(sp, args) ==
    IF Len(args) < 1 THEN sp
    ELSE LET gray == parseFloat(args[1])
         IN  [sp EXCEPT !.heap[sp.graphicsState].FillColor = PDFColor(gray, gray, gray, "Gray")]

CMYKToRGB(args) ==
    LET c == parseFloat(args[1])
        m == parseFloat(args[2])
        y == parseFloat(args[3])
        k == parseFloat(args[4])
    IN  PDFColor(MulF(Fix(1) - c, Fix(1) - k), MulF(Fix(1) - m, Fix(1) - k),
                 MulF(Fix(1) - y, Fix(1) - k), "CMYK")

setStrokeColorCMYK(sp, args) ==
    IF Len(args) < 4 THEN sp
    ELSE [sp EXCEPT !.heap[sp.graphicsState].StrokeColor = CMYKToRGB(args)]

setFillColorCMYK(sp, args) ==
    IF Len(args) < 4 THEN sp
    ELSE [sp EXCEPT !.heap[sp.graphicsState].FillColor = CMYKToRGB(args)]

setStrokeColor(sp, args) ==
    IF Len(args) = 1 THEN setStrokeColorGray(sp, args)
    ELSE IF Len(args) >= 3 THEN setStrokeColorRGB(sp, args)
    ELSE sp

setFillColor(sp, args) ==
    IF Len(args) = 1 THEN setFillColorGray(sp, args)
    ELSE IF Len(args) >= 3 THEN setFillColorRGB(sp, args)
    ELSE sp

----------------------------------------------------------------------------
(* pdf.ContentStreamParser: path construction and painting *)

moveTo(sp, args) ==
    IF Len(args) < 2 THEN sp
    ELSE [sp EXCEPT !.currentPath = Append(@,
            PathElement("moveto", <<Point(parseFloat(args[1]), parseFloat(args[2]))>>))]

lineTo(sp, args) ==
    IF Len(args) < 2 THEN sp
    ELSE [sp EXCEPT !.currentPath = Append(@,
            PathElement("lineto", <<Point(parseFloat(args[1]), parseFloat(args[2]))>>))]

curveTo(sp, args) ==
    IF Len(args) < 6 THEN sp
    ELSE [sp EXCEPT !.currentPath = Append(@,
            PathElement("curveto", <<Point(parseFloat(args[1]), parseFloat(args[2])),
                                     Point(parseFloat(args[3]), parseFloat(args[4])),
                                     Point(parseFloat(args[5]), parseFloat(args[6]))>>))]

curveToV(sp, args) ==
    IF Len(args) < 4 THEN sp
    ELSE [sp EXCEPT !.currentPath = Append(@,
            PathElement("curveto", <<Point(0, 0),
                                     Point(parseFloat(args[1]), parseFloat(args[2])),
                                     Point(parseFloat(args[3]), parseFloat(args[4]))>>))]

curveToY(sp, args) ==
    IF Len(args) < 4 THEN sp
    ELSE [sp EXCEPT !.currentPath = Append(@,
            PathElement("curveto", <<Point(parseFloat(args[1]), parseFloat(args[2])),
                                     Point(parseFloat(args[3]), parseFloat(args[4])),
                                     Point(parseFloat(args[3]), parseFloat(args[4]))>>))]

closePath(sp) ==
    [sp EXCEPT !.currentPath = Append(@, PathElement("close", <<>>))]

rectangle(sp, args) ==
    IF Len(args) < 4 THEN sp
    ELSE LET x == parseFloat(args[1])
             y == parseFloat(args[2])
             width == parseFloat(args[3])
             height == parseFloat(args[4])
         IN  [sp EXCEPT !.currentPath = @ \o
                <<PathElement("moveto", <<Point(x, y)>>),
                  PathElement("lineto", <<Point(x + width, y)>>),
                  PathElement("lineto", <<Point(x + width, y + height)>>),
                  PathElement("lineto", <<Point(x, y + height)>>),
                  PathElement("close", <<>>)>>]

transformPoint(sp, x, y) ==
    LET ctm == GS(sp).CTM
    IN  Point(MulF(ctm.A, x) + MulF(ctm.C, y) + ctm.E,
              MulF(ctm.B, x) + MulF(ctm.D, y) + ctm.F)

convertPDFColorToColor(pdfColor) ==
    Color(ToUint8(pdfColor.R), ToUint8(pdfColor.G), ToUint8(pdfColor.B))

\* The loop of createLineFromPath from element i on; acc holds currentX/Y,
\* pathStartX/Y and the lines and curves appended so far.
RECURSIVE createLineFromPathLoop(_, _, _)
createLineFromPathLoop(sp, i, acc) ==
    IF i > Len(sp.currentPath) THEN acc
    ELSE
      LET elem == sp.currentPath[i]
          strokeColor == convertPDFColorToColor(GS(sp).StrokeColor)
          width == GS(sp).LineWidth
          start == transformPoint(sp, acc.currentX, acc.currentY)
      IN
      IF elem.Type = "moveto" /\ Len(elem.Points) > 0 THEN
          createLineFromPathLoop(sp, i + 1,
              [acc EXCEPT !.currentX = elem.Points[1].X, !.currentY = elem.Points[1].Y,
                          !.pathStartX = elem.Points[1].X, !.pathStartY = elem.Points[1].Y])
      ELSE IF elem.Type = "lineto" /\ Len(elem.Points) > 0 THEN
          LET end == transformPoint(sp, elem.Points[1].X, elem.Points[1].Y)
          IN  createLineFromPathLoop(sp, i + 1,
                [acc EXCEPT !.Lines = Append(@, LineObject(start.X, start.Y, end.X, end.Y,
                                                           width, strokeColor)),
                            !.currentX = elem.Points[1].X, !.currentY = elem.Points[1].Y])
      ELSE IF elem.Type = "close"
              /\ (acc.currentX # acc.pathStartX \/ acc.currentY # acc.pathStartY) THEN
          LET end == transformPoint(sp, acc.pathStartX, acc.pathStartY)
          IN  createLineFromPathLoop(sp, i + 1,
                [acc EXCEPT !.Lines = Append(@, LineObject(start.X, start.Y, end.X, end.Y,
                                                           width, strokeColor))])
      ELSE IF elem.Type = "curveto" /\ Len(elem.Points) >= 3 THEN
          LET end == transformPoint(sp, elem.Points[3].X, elem.Points[3].Y)
              cp1 == transformPoint(sp, elem.Points[1].X, elem.Points[1].Y)
              cp2 == transformPoint(sp, elem.Points[2].X, elem.Points[2].Y)
          IN  createLineFromPathLoop(sp, i + 1,
                [acc EXCEPT !.Curves = Append(@, [Points |-> <<start, cp1, cp2, end>>,
                                                  StrokeColor |-> strokeColor,
                                                  Width |-> width]),
                            !.currentX = elem.Points[3].X, !.currentY = elem.Points[3].Y])
      ELSE createLineFromPathLoop(sp, i + 1, acc)

createLineFromPath(sp) ==
    IF Len(sp.currentPath) < 2 THEN sp
    ELSE LET acc == createLineFromPathLoop(sp, 1,
                      [currentX |-> 0, currentY |-> 0, pathStartX |-> 0, pathStartY |-> 0,
                       Lines |-> sp.objects.Lines, Curves |-> sp.objects.Curves])
         IN  [sp EXCEPT !.objects.Lines = acc.Lines, !.objects.Curves = acc.Curves]

isRectanglePath(sp) ==
    LET lineCount == Cardinality({i \in 1..Len(sp.currentPath) : sp.currentPath[i].Type = "lineto"})
        hasClose == \E i \in 1..Len(sp.currentPath) : sp.currentPath[i].Type = "close"
    IN  lineCount = 3 /\ hasClose

\* all points of the path, in order
RECURSIVE PathPoints(_)
PathPoints(path) ==
    IF path = <<>> THEN <<>> ELSE Head(path).Points \o PathPoints(Tail(path))

RECURSIVE FoldBounds(_, _, _)
FoldBounds(pts, i, b) ==
    IF i > Len(pts) THEN b
    ELSE FoldBounds(pts, i + 1,
            IF i = 1
            THEN [minX |-> pts[1].X, maxX |-> pts[1].X, minY |-> pts[1].Y, maxY |-> pts[1].Y]
            ELSE [minX |-> Min(b.minX, pts[i].X), maxX |-> Max(b.maxX, pts[i].X),
                  minY |-> Min(b.minY, pts[i].Y), maxY |-> Max(b.maxY, pts[i].Y)])

getPathBounds(sp) ==
    FoldBounds(PathPoints(sp.currentPath), 1, [minX |-> 0, maxX |-> 0, minY |-> 0, maxY |-> 0])

createFilledPath(sp) ==
    IF Len(sp.currentPath) < 3 THEN sp
    ELSE IF isRectanglePath(sp)
    THEN LET b == getPathBounds(sp)
             c0 == transformPoint(sp, b.minX, b.minY)
             c1 == transformPoint(sp, b.maxX, b.maxY)
             fillColor == convertPDFColorToColor(GS(sp).FillColor)
         IN  [sp EXCEPT !.objects.Rects = Append(@,
                RectObject(Min(c0.X, c1.X), Min(c0.Y, c1.Y), Max(c0.X, c1.X), Max(c0.Y, c1.Y),
                           0, [R |-> 0, G |-> 0, B |-> 0, A |-> 0], fillColor,
                           FALSE, FALSE, TRUE))]
    ELSE sp

stroke(sp) == [createLineFromPath(sp) EXCEPT !.currentPath = <<>>]

fill(sp) == [createFilledPath(sp) EXCEPT !.currentPath = <<>>]

fillAndStroke(sp) ==
    [createLineFromPath(createFilledPath(sp)) EXCEPT !.currentPath = <<>>]

endPath(sp) == [sp EXCEPT !.currentPath = <<>>]

----------------------------------------------------------------------------
(* pdf.ContentStreamParser: text operators *)

beginText(sp) == [sp EXCEPT !.textMatrix = IdentityMatrix, !.lineMatrix = IdentityMatrix]

endText(sp) == sp

textMoveBy(sp, args) ==
    IF Len(args) < 2 THEN sp
    ELSE LET tx == parseFloat(args[1])
             ty == parseFloat(args[2])
             translation == TranslationMatrix(tx, ty)
             lm == MultiplyMatrix(translation, sp.lineMatrix)
         IN  [sp EXCEPT !.lineMatrix = lm, !.textMatrix = lm]

textMoveByWithLeading(sp, args) ==
    IF Len(args) < 2 THEN sp
    ELSE LET ty == parseFloat(args[2])
         IN  textMoveBy([sp EXCEPT !.textState.Leading = -ty], args)

setTextMatrix(sp, args) ==
    IF Len(args) < 6 THEN sp
    ELSE LET m == Matrix(parseFloat(args[1]), parseFloat(args[2]), parseFloat(args[3]),
                         parseFloat(args[4]), parseFloat(args[5]), parseFloat(args[6]))
         IN  [sp EXCEPT !.textMatrix = m, !.lineMatrix = m]

\* fmt.Sprintf("%f", x): six decimals, which a two-decimal value survives
SprintfF(x) == Tok("num", x, "", <<>>, <<>>)

textNextLine(sp) ==
    textMoveBy(sp, <<Tok("num", 0, "", <<"0">>, <<>>), SprintfF(-sp.textState.Leading)>>)

getCharWidth(char) ==
    IF char = " " THEN 25
    ELSE IF char \in {"i", "l", "I", "!", ".", ",", ";", ":", "'", "\""} THEN 30
    ELSE IF char \in {"m", "M", "W", "w"} THEN 80
    ELSE 50

\* With a ToUnicode CMap the bytes of the string are codes: two bytes at a time
\* under an Identity encoding, one byte at a time under any other; without one
\* the string is returned as it is.
RECURSIVE decodeString_SingleByte(_, _)
decodeString_SingleByte(cmap, data) ==
    IF data = <<>> THEN <<>>
    ELSE (IF MapCIDToUnicode(cmap, data[1]).ok THEN MapCIDToUnicode(cmap, data[1]).unicode
          ELSE <<data[1]>>) \o decodeString_SingleByte(cmap, Tail(data))

decodeString(sp, str) ==
    LET font == sp.fonts[sp.textState.Font]
    IN  IF sp.textState.Font # NoFont /\ font.ToUnicodeCMap # NoCMap
        THEN IF font.Encoding \in {"Identity-H", "Identity-V"}
             THEN decodeTwoBytes(font.ToUnicodeCMap, str, 1)
             ELSE decodeString_SingleByte(font.ToUnicodeCMap, str)
        ELSE str

\* The named escapes; a backslash before any other character is written as it
\* is (the strings of the model hold no octal escape).
EscapeChar(c) ==
    CASE c = "n" -> "\n" [] c = "r" -> "\r" [] c = "t" -> "\t"
      [] c = "b" -> "<BS>" [] c = "f" -> "\f"

RECURSIVE unescapeString(_)
unescapeString(str) ==
    IF str = <<>> THEN <<>>
    ELSE IF str[1] = "\\" /\ Len(str) > 1
    THEN IF str[2] \in {"n", "r", "t", "b", "f"}
         THEN <<EscapeChar(str[2])>> \o unescapeString(SubSeq(str, 3, Len(str)))
         ELSE IF str[2] \in {"(", ")", "\\"}
         THEN <<str[2]>> \o unescapeString(SubSeq(str, 3, Len(str)))
         ELSE <<str[1]>> \o unescapeString(Tail(str))
    ELSE <<str[1]>> \o unescapeString(Tail(str))

extractString(sp, t) ==
    IF t.k \in {"str", "hex"}
    THEN IF sp.textState.Font # NoFont
         THEN decodeString(sp, unescapeString(t.text))
         ELSE unescapeString(t.text)
    ELSE RawText(t)

\* the loop of addTextChars from rune i on
RECURSIVE addTextCharsLoop(_, _, _)
addTextCharsLoop(sp, text, i) ==
    IF i > Len(text) THEN sp
    ELSE
      LET charStr == text[i]
          charWidth == MulF(getCharWidth(charStr), sp.textState.FontSize)
          textX == sp.textMatrix.E
          textY == sp.textMatrix.F
          ctm == GS(sp).CTM
          x == MulF(ctm.A, textX) + MulF(ctm.C, textY) + ctm.E
          y == MulF(ctm.B, textX) + MulF(ctm.D, textY) + ctm.F
          char == CharObject(<<charStr>>, sp.fonts[sp.textState.Font].Name,
                             sp.textState.FontSize,
                             x, y, x + charWidth, y + sp.textState.FontSize,
                             charWidth, sp.textState.FontSize,
                             [R |-> 0, G |-> 0, B |-> 0, A |-> 0])
          d0 == charWidth + (IF charStr = " " THEN sp.textState.WordSpace ELSE 0)
                          + sp.textState.CharSpace
          displacement == MulF(d0, (sp.textState.Scale * 100) \div Fix(100))
      IN  addTextCharsLoop(
            [sp EXCEPT !.objects.Chars = Append(@, char),
                       !.textMatrix.E = @ + MulF(displacement, sp.textMatrix.A),
                       !.textMatrix.F = @ + MulF(displacement, sp.textMatrix.B)],
            text, i + 1)

addTextChars(sp, text) ==
    IF text = <<>> THEN sp
    ELSE IF sp.textState.Font = NoFont THEN sp
    ELSE addTextCharsLoop(sp, text, 1)

showText(sp, args) ==
    IF Len(args) < 1 THEN sp
    ELSE addTextChars(sp, extractString(sp, args[1]))

\* the loop of showTextArray over the elements between the brackets
RECURSIVE showTextArrayLoop(_, _, _)
showTextArrayLoop(sp, elements, i) ==
    IF i > Len(elements) THEN sp
    ELSE LET elem == elements[i]
         IN  IF elem.k \in {"str", "hex"}
             THEN showTextArrayLoop(addTextChars(sp, extractString(sp, elem)), elements, i + 1)
             ELSE LET spacing == MulF((parseFloat(elem) * 100) \div Fix(1000),
                                      sp.textState.FontSize)
                  IN  showTextArrayLoop(
                        [sp EXCEPT !.textMatrix.E = @ - MulF(spacing, sp.textMatrix.A)],
                        elements, i + 1)

\* operands joined by " " start with "[" and end with "]" exactly when the first
\* token starts with "[" and the last one ends with "]"
showTextArray(sp, args) ==
    IF Len(args) < 1 THEN sp
    ELSE IF ~(args[1].k = "[" /\ args[Len(args)].k = "]") THEN sp
    ELSE showTextArrayLoop(sp, SubSeq(args, 2, Len(args) - 1), 1)

textNextLineShow(sp, args) == showText(textNextLine(sp), args)

setCharSpace(sp, args) ==
    IF Len(args) < 1 THEN sp
    ELSE [sp EXCEPT !.textState.CharSpace = parseFloat(args[1])]

setWordSpace(sp, args) ==
    IF Len(args) < 1 THEN sp
    ELSE [sp EXCEPT !.textState.WordSpace = parseFloat(args[1])]

textNextLineShowWithSpacing(sp, args) ==
    IF Len(args) < 3 THEN sp
    ELSE showText(setCharSpace(setWordSpace(sp, SubSeq(args, 1, 1)), SubSeq(args, 2, 2)),
                  SubSeq(args, 3, Len(args)))

setHorizontalScale(sp, args) ==
    IF Len(args) < 1 THEN sp
    ELSE [sp EXCEPT !.textState.Scale = parseFloat(args[1])]

setTextLeading(sp, args) ==
    IF Len(args) < 1 THEN sp
    ELSE [sp EXCEPT !.textState.Leading = parseFloat(args[1])]

\* strings.TrimPrefix(operands[0], "/") as a key of p.fonts
FontKey(t) ==
    LET raw == RawText(t)
    IN  IF raw # <<>> /\ raw[1] = "/" THEN Tail(raw) ELSE raw

setFont(sp, args) ==
    IF Len(args) < 2 THEN sp
    ELSE LET fontName == FontKey(args[1])
             fontSize == parseFloat(args[2])
         IN  [sp EXCEPT !.textState.Font = IF fontName \in DOMAIN sp.fonts THEN fontName ELSE @,
                        !.textState.FontSize = fontSize]

setTextRenderMode(sp, args) ==
    IF Len(args) < 1 THEN sp
    ELSE [sp EXCEPT !.textState.RenderMode = parseInt(args[1])]

setTextRise(sp, args) ==
    IF Len(args) < 1 THEN sp
    ELSE [sp EXCEPT !.textState.Rise = parseFloat(args[1])]

----------------------------------------------------------------------------
(* pdf.ContentStreamParser: dispatch *)

Operators ==
    {"BT", "ET", "Td", "TD", "Tm", "T*", "Tj", "TJ", "'", "\"",
     "Tc", "Tw", "Tz", "TL", "Tf", "Tr", "Ts",
     "q", "Q", "cm", "w", "J", "j", "M", "d", "ri", "i", "gs",
     "m", "l", "c", "v", "y", "h", "re",
     "S", "s", "f", "F", "f*", "B", "B*", "b", "b*", "n",
     "CS", "cs", "SC", "SCN", "sc", "scn", "G", "g", "RG", "rg", "K", "k",
     "W", "W*", "BX", "EX", "Do", "MP", "DP", "BMC", "BDC", "EMC"}

isOperator(t) == t.k = "id" /\ t.s \in Operators

processOperator(sp, operator, args) ==
    CASE operator = "BT" -> beginText(sp)
      [] operator = "ET" -> endText(sp)
      [] operator = "Td" -> textMoveBy(sp, args)
      [] operator = "TD" -> textMoveByWithLeading(sp, args)
      [] operator = "Tm" -> setTextMatrix(sp, args)
      [] operator = "T*" -> textNextLine(sp)
      [] operator = "Tj" -> showText(sp, args)
      [] operator = "TJ" -> showTextArray(sp, args)
      [] operator = "'" -> textNextLineShow(sp, args)
      [] operator = "\"" -> textNextLineShowWithSpacing(sp, args)
      [] operator = "Tc" -> setCharSpace(sp, args)
      [] operator = "Tw" -> setWordSpace(sp, args)
      [] operator = "Tz" -> setHorizontalScale(sp, args)
      [] operator = "TL" -> setTextLeading(sp, args)
      [] operator = "Tf" -> setFont(sp, args)
      [] operator = "Tr" -> setTextRenderMode(sp, args)
      [] operator = "Ts" -> setTextRise(sp, args)
      [] operator = "q" -> saveGraphicsState(sp)
      [] operator = "Q" -> restoreGraphicsState(sp)
      [] operator = "cm" -> concatenateMatrix(sp, args)
      [] operator = "m" -> moveTo(sp, args)
      [] operator = "l" -> lineTo(sp, args)
      [] operator = "c" -> curveTo(sp, args)
      [] operator = "v" -> curveToV(sp, args)
      [] operator = "y" -> curveToY(sp, args)
      [] operator = "h" -> closePath(sp)
      [] operator = "re" -> rectangle(sp, args)
      [] operator \in {"S", "s"} -> stroke(sp)
      [] operator \in {"f", "F", "f*"} -> fill(sp)
      [] operator \in {"B", "B*", "b", "b*"} -> fillAndStroke(sp)
      [] operator = "n" -> endPath(sp)
      [] operator = "w" -> setLineWidth(sp, args)
      [] operator = "J" -> setLineCap(sp, args)
      [] operator = "j" -> setLineJoin(sp, args)
      [] operator = "M" -> setMiterLimit(sp, args)
      [] operator = "d" -> setDashPattern(sp, args)
      [] operator = "RG" -> setStrokeColorRGB(sp, args)
      [] operator = "rg" -> setFillColorRGB(sp, args)
      [] operator = "G" -> setStrokeColorGray(sp, args)
      [] operator = "g" -> setFillColorGray(sp, args)
      [] operator = "K" -> setStrokeColorCMYK(sp, args)
      [] operator = "k" -> setFillColorCMYK(sp, args)
      [] operator \in {"SC", "SCN"} -> setStrokeColor(sp, args)
      [] operator \in {"sc", "scn"} -> setFillColor(sp, args)
      [] OTHER -> sp

----------------------------------------------------------------------------
(* content.GraphicsState and content.StateStack (pkg/content/state.go) *)

NewGraphicsState ==
    [CTM |-> IdentityMatrix, TextMatrix |-> IdentityMatrix, TextLineMatrix |-> IdentityMatrix,
     CharSpace |-> 0, WordSpace |-> 0, HScale |-> Fix(100), Leading |-> 0,
     FontName |-> <<>>, FontSize |-> 0, TextRise |-> 0, RenderMode |-> 0,
     LineWidth |-> Fix(1), LineCap |-> 0, LineJoin |-> 0, MiterLimit |-> Fix(10),
     DashPattern |-> <<>>, DashPhase |-> 0,
     StrokeColor |-> <<0>>, FillColor |-> <<0>>, ColorSpace |-> "DeviceGray",
     CurrentPath |-> <<>>, CurrentPoint |-> Point(0, 0)]

\* A stack is its heap of GraphicsState objects and states, the addresses of the
\* saved states, the current one last.
NewStateStack == [heap |-> <<NewGraphicsState>>, states |-> <<1>>]

\* StateStack.Current, as an address (states is never empty: Restore keeps one)
Current(s) == s.states[Len(s.states)]

\* GraphicsState.Clone: the struct is copied and each slice is copied into a new one
Clone(gs) ==
    [gs EXCEPT !.DashPattern = [i \in 1..Len(gs.DashPattern) |-> gs.DashPattern[i]],
               !.StrokeColor = [i \in 1..Len(gs.StrokeColor) |-> gs.StrokeColor[i]],
               !.FillColor = [i \in 1..Len(gs.FillColor) |-> gs.FillColor[i]],
               !.CurrentPath = [i \in 1..Len(gs.CurrentPath) |-> gs.CurrentPath[i]]]

Save(s) ==
    LET current == s.heap[Current(s)]
    IN  [heap |-> Append(s.heap, Clone(current)),
         states |-> Append(s.states, Len(s.heap) + 1)]

\* Restore that drops every saved state at once
Restore_ToBase(s) ==
    IF Len(s.states) > 1
    THEN [s EXCEPT !.states = SubSeq(@, 1, 1)]
    ELSE s

Restore(s) ==
    IF Len(s.states) > 1
    THEN [s EXCEPT !.states = SubSeq(@, 1, Len(@) - 1)]
    ELSE s

----------------------------------------------------------------------------
(* content.ContentExtractor *)

NewContentExtractor ==
    [stateStack |-> NewStateStack,
     chars |-> <<>>, lines |-> <<>>, rects |-> <<>>, curves |-> <<>>,
     fonts |-> PageFonts,
     aborted |-> FALSE]

\* *state, the object processOperator reads through state := e.stateStack.Current()
St(ex) == ex.stateStack.heap[Current(ex.stateStack)]

\* fmt.Sprintf("%v") of a value that is neither a string nor bytes
toString(t) ==
    IF t.k = "name" THEN Tail(t.text)
    ELSE IF t.k \in {"str", "hex", "num", "id"} THEN t.text
    ELSE <<"[", "]">>

toBytes(t) == toString(t)

makeColor(values) ==
    IF Len(values) = 1
    THEN Color(ToUint8(values[1]), ToUint8(values[1]), ToUint8(values[1]))
    ELSE IF Len(values) = 3
    THEN Color(ToUint8(values[1]), ToUint8(values[2]), ToUint8(values[3]))
    ELSE Color(0, 0, 0)

\* the points detectRectangleFromPath collects: a move starts the list again
RECURSIVE RectPoints(_, _, _)
RectPoints(path, i, points) ==
    IF i > Len(path) THEN points
    ELSE LET elem == path[i]
         IN  IF elem.Type = "move" /\ Len(elem.Points) > 0
             THEN RectPoints(path, i + 1, <<elem.Points[1]>>)
             ELSE IF elem.Type = "line" /\ Len(elem.Points) > 0
             THEN RectPoints(path, i + 1, Append(points, elem.Points[1]))
             ELSE RectPoints(path, i + 1, points)

Abs(x) == IF x < 0 THEN -x ELSE x

\* nil is [ok |-> FALSE]
detectRectangleFromPath(path) ==
    LET none == [ok |-> FALSE, X0 |-> 0, Y0 |-> 0, X1 |-> 0, Y1 |-> 0]
        points == RectPoints(path, 1, <<>>)
        b == FoldBounds(points, 1, [minX |-> 0, maxX |-> 0, minY |-> 0, maxY |-> 0])
        tolerance == 10
        atCorner(pt) ==
            /\ (Abs(pt.X - b.minX) < tolerance \/ Abs(pt.X - b.maxX) < tolerance)
            /\ (Abs(pt.Y - b.minY) < tolerance \/ Abs(pt.Y - b.maxY) < tolerance)
    IN  IF Len(path) < 4 THEN none
        ELSE IF Len(points) < 4 THEN none
        ELSE IF Len(points) \in {4, 5} /\ \A i \in 1..Len(points) : atCorner(points[i])
        THEN [ok |-> TRUE, X0 |-> b.minX, Y0 |-> b.minY, X1 |-> b.maxX, Y1 |-> b.maxY]
        ELSE none

\* the rectangle the h, f and B cases append for a detected rect
PathRect(ex, rect, width, filled, stroked) ==
    LET state == St(ex)
        c0 == Transform(state.CTM, rect.X0, rect.Y0)
        c1 == Transform(state.CTM, rect.X1, rect.Y1)
    IN  RectObject(Min(c0.X, c1.X), Min(c0.Y, c1.Y), Max(c0.X, c1.X), Max(c0.Y, c1.Y),
                   width, makeColor(state.StrokeColor), makeColor(state.FillColor),
                   filled, stroked, FALSE)

\* ContentExtractor.showText
exShowText(ex, text) ==
    LET a == Current(ex.stateStack)
        state == St(ex)
        decodedText == text
        pt == Transform(state.CTM, state.TextMatrix.E, state.TextMatrix.F)
        width == MulF(MulF(Fix(Len(decodedText)), state.FontSize), 50)
        char == CharObject(decodedText, state.FontName, state.FontSize,
                           pt.X, pt.Y - state.FontSize, pt.X + width, pt.Y,
                           width, state.FontSize, makeColor(state.FillColor))
    IN  IF state.FontSize = 0 THEN ex
        ELSE [ex EXCEPT !.chars = Append(@, char),
                        !.stateStack.heap[a].TextMatrix =
                            Multiply(@, Translate(width, 0))]

case_q(ex) == [ex EXCEPT !.stateStack = Save(@)]

case_Q(ex) == [ex EXCEPT !.stateStack = Restore(@)]

case_cm(ex, args) ==
    IF Len(args) = 6
    THEN LET matrix == Matrix(toFloat(args[1]), toFloat(args[2]), toFloat(args[3]),
                              toFloat(args[4]), toFloat(args[5]), toFloat(args[6]))
         IN  [ex EXCEPT !.stateStack.heap[Current(ex.stateStack)].CTM = Multiply(@, matrix)]
    ELSE ex

case_m(ex, args) ==
    IF Len(args) = 2
    THEN LET pt == Transform(St(ex).CTM, toFloat(args[1]), toFloat(args[2]))
         IN  [ex EXCEPT !.stateStack.heap[Current(ex.stateStack)] =
                [@ EXCEPT !.CurrentPoint = pt,
                          !.CurrentPath = Append(@, PathElement("move", <<pt>>))]]
    ELSE ex

case_l(ex, args) ==
    IF Len(args) = 2
    THEN LET state == St(ex)
             pt == Transform(state.CTM, toFloat(args[1]), toFloat(args[2]))
             line == LineObject(state.CurrentPoint.X, state.CurrentPoint.Y, pt.X, pt.Y,
                                state.LineWidth, makeColor(state.StrokeColor))
         IN  [ex EXCEPT !.lines = IF Len(state.CurrentPath) > 0 THEN Append(@, line) ELSE @,
                        !.stateStack.heap[Current(ex.stateStack)] =
                [@ EXCEPT !.CurrentPoint = pt,
                          !.CurrentPath = Append(@, PathElement("line", <<pt>>))]]
    ELSE ex

case_re(ex, args) ==
    IF Len(args) = 4
    THEN LET state == St(ex)
             x == toFloat(args[1])
             y == toFloat(args[2])
             w == toFloat(args[3])
             h == toFloat(args[4])
             c0 == Transform(state.CTM, x, y)
             c1 == Transform(state.CTM, x + w, y + h)
         IN  [ex EXCEPT !.rects = Append(@,
                RectObject(Min(c0.X, c1.X), Min(c0.Y, c1.Y), Max(c0.X, c1.X), Max(c0.Y, c1.Y),
                           state.LineWidth, makeColor(state.StrokeColor),
                           makeColor(state.FillColor), FALSE, FALSE, FALSE))]
    ELSE ex

case_h(ex) ==
    LET a == Current(ex.stateStack)
        closed == [ex EXCEPT !.stateStack.heap[a].CurrentPath =
                                Append(@, PathElement("close", <<>>))]
        rect == detectRectangleFromPath(St(closed).CurrentPath)
    IN  IF rect.ok
        THEN [closed EXCEPT !.rects =
                Append(@, PathRect(closed, rect, St(closed).LineWidth, FALSE, FALSE))]
        ELSE closed

\* S and s: s appends a close first; either way the path is then replaced
case_S(ex, op) ==
    [ex EXCEPT !.stateStack.heap[Current(ex.stateStack)].CurrentPath = <<>>]

case_f(ex) ==
    LET a == Current(ex.stateStack)
        rect == detectRectangleFromPath(St(ex).CurrentPath)
        painted == IF rect.ok
                   THEN [ex EXCEPT !.rects = Append(@, PathRect(ex, rect, 0, TRUE, FALSE))]
                   ELSE ex
    IN  [painted EXCEPT !.stateStack.heap[a].CurrentPath = <<>>]

case_B(ex) ==
    LET a == Current(ex.stateStack)
        rect == detectRectangleFromPath(St(ex).CurrentPath)
        painted == IF rect.ok
                   THEN [ex EXCEPT !.rects =
                            Append(@, PathRect(ex, rect, St(ex).LineWidth, TRUE, TRUE))]
                   ELSE ex
    IN  [painted EXCEPT !.stateStack.heap[a].CurrentPath = <<>>]

case_n(ex) ==
    [ex EXCEPT !.stateStack.heap[Current(ex.stateStack)].CurrentPath = <<>>]

case_BT(ex) ==
    [ex EXCEPT !.stateStack.heap[Current(ex.stateStack)] =
        [@ EXCEPT !.TextMatrix = IdentityMatrix, !.TextLineMatrix = IdentityMatrix]]

case_ET(ex) == ex

case_Tf(ex, args) ==
    IF Len(args) = 2
    THEN [ex EXCEPT !.stateStack.heap[Current(ex.stateStack)] =
            [@ EXCEPT !.FontName = toString(args[1]), !.FontSize = toFloat(args[2])]]
    ELSE ex

\* state.TextLineMatrix = state.TextLineMatrix.Multiply(Translate(tx, ty));
\* state.TextMatrix = state.TextLineMatrix
exMoveLine(ex, tx, ty) ==
    LET tlm == Multiply(St(ex).TextLineMatrix, Translate(tx, ty))
    IN  [ex EXCEPT !.stateStack.heap[Current(ex.stateStack)] =
            [@ EXCEPT !.TextLineMatrix = tlm, !.TextMatrix = tlm]]

case_Td(ex, args) ==
    IF Len(args) = 2 THEN exMoveLine(ex, toFloat(args[1]), toFloat(args[2])) ELSE ex

case_TD(ex, args) ==
    IF Len(args) = 2
    THEN exMoveLine([ex EXCEPT !.stateStack.heap[Current(ex.stateStack)].Leading =
                        -toFloat(args[2])],
                    toFloat(args[1]), toFloat(args[2]))
    ELSE ex

case_Tm(ex, args) ==
    IF Len(args) = 6
    THEN LET m == Matrix(toFloat(args[1]), toFloat(args[2]), toFloat(args[3]),
                         toFloat(args[4]), toFloat(args[5]), toFloat(args[6]))
         IN  [ex EXCEPT !.stateStack.heap[Current(ex.stateStack)] =
                [@ EXCEPT !.TextMatrix = m, !.TextLineMatrix = m]]
    ELSE ex

case_Tstar(ex) == exMoveLine(ex, 0, -St(ex).Leading)

case_Tj(ex, args) ==
    IF Len(args) = 1 THEN exShowText(ex, toBytes(args[1])) ELSE ex

RECURSIVE case_TJ_Loop(_, _, _)
case_TJ_Loop(ex, array, i) ==
    IF i > Len(array) THEN ex
    ELSE LET v == array[i]
         IN  IF v.k \in {"str", "hex", "name"}
             THEN case_TJ_Loop(exShowText(ex, toString(v)), array, i + 1)
             ELSE IF v.k = "num"
             THEN LET adjustment == -((v.n * St(ex).FontSize) \div 100000)
                  IN  case_TJ_Loop(
                        [ex EXCEPT !.stateStack.heap[Current(ex.stateStack)].TextMatrix =
                            Multiply(@, Translate(adjustment, 0))],
                        array, i + 1)
             ELSE case_TJ_Loop(ex, array, i + 1)

case_TJ(ex, args) ==
    IF Len(args) = 1 /\ args[1].k = "array"
    THEN case_TJ_Loop(ex, args[1].elems, 1)
    ELSE ex

case_quote(ex, args) ==
    LET moved == exMoveLine(ex, 0, -St(ex).Leading)
    IN  IF Len(args) = 1 THEN exShowText(moved, toBytes(args[1])) ELSE moved

case_dquote(ex, args) ==
    IF Len(args) = 3
    THEN LET spaced == [ex EXCEPT !.stateStack.heap[Current(ex.stateStack)] =
                            [@ EXCEPT !.WordSpace = toFloat(args[1]),
                                      !.CharSpace = toFloat(args[2])]]
             moved == exMoveLine(spaced, 0, -St(spaced).Leading)
         IN  exShowText(moved, toBytes(args[3]))
    ELSE ex

case_g(ex, args) ==
    IF Len(args) = 1
    THEN [ex EXCEPT !.stateStack.heap[Current(ex.stateStack)] =
            [@ EXCEPT !.FillColor = <<toFloat(args[1])>>, !.ColorSpace = "DeviceGray"]]
    ELSE ex

case_G(ex, args) ==
    IF Len(args) = 1
    THEN [ex EXCEPT !.stateStack.heap[Current(ex.stateStack)].StrokeColor =
            <<toFloat(args[1])>>]
    ELSE ex

case_rg(ex, args) ==
    IF Len(args) = 3
    THEN [ex EXCEPT !.stateStack.heap[Current(ex.stateStack)] =
            [@ EXCEPT !.FillColor = <<toFloat(args[1]), toFloat(args[2]), toFloat(args[3])>>,
                      !.ColorSpace = "DeviceRGB"]]
    ELSE ex

case_RG(ex, args) ==
    IF Len(args) = 3
    THEN [ex EXCEPT !.stateStack.heap[Current(ex.stateStack)].StrokeColor =
            <<toFloat(args[1]), toFloat(args[2]), toFloat(args[3])>>]
    ELSE ex

case_w(ex, args) ==
    IF Len(args) = 1
    THEN [ex EXCEPT !.stateStack.heap[Current(ex.stateStack)].LineWidth = toFloat(args[1])]
    ELSE ex

case_J(ex, args) ==
    IF Len(args) = 1
    THEN [ex EXCEPT !.stateStack.heap[Current(ex.stateStack)].LineCap =
            toFloat(args[1]) \div 100]
    ELSE ex

case_j(ex, args) ==
    IF Len(args) = 1
    THEN [ex EXCEPT !.stateStack.heap[Current(ex.stateStack)].LineJoin =
            toFloat(args[1]) \div 100]
    ELSE ex

\* ContentExtractor.processOperator: the switch on op
exProcessOperator(ex, op, args) ==
    CASE op = "q" -> case_q(ex)
      [] op = "Q" -> case_Q(ex)
      [] op = "cm" -> case_cm(ex, args)
      [] op = "m" -> case_m(ex, args)
      [] op = "l" -> case_l(ex, args)
      [] op = "re" -> case_re(ex, args)
      [] op = "h" -> case_h(ex)
      [] op \in {"S", "s"} -> case_S(ex, op)
      [] op \in {"f", "F", "f*"} -> case_f(ex)
      [] op \in {"B", "B*", "b", "b*"} -> case_B(ex)
      [] op = "n" -> case_n(ex)
      [] op = "BT" -> case_BT(ex)
      [] op = "ET" -> case_ET(ex)
      [] op = "Tf" -> case_Tf(ex, args)
      [] op = "Td" -> case_Td(ex, args)
      [] op = "TD" -> case_TD(ex, args)
      [] op = "Tm" -> case_Tm(ex, args)
      [] op = "T*" -> case_Tstar(ex)
      [] op = "Tj" -> case_Tj(ex, args)
      [] op = "TJ" -> case_TJ(ex, args)
      [] op = "'" -> case_quote(ex, args)
      [] op = "\"" -> case_dquote(ex, args)
      [] op = "g" -> case_g(ex, args)
      [] op = "G" -> case_G(ex, args)
      [] op = "rg" -> case_rg(ex, args)
      [] op = "RG" -> case_RG(ex, args)
      [] op = "w" -> case_w(ex, args)
      [] op = "J" -> case_J(ex, args)
      [] op = "j" -> case_j(ex, args)
      [] OTHER -> ex

----------------------------------------------------------------------------
(* ContentExtractor's lexer, one lexeme at a time.  A lexeme of the stream  *)
(* is a token, or an array (k = "array") with its element lexemes.          *)

Array(elems) == Tok("array", 0, "", <<"[", "]">>, elems)
OpenBracket == Tok("[", 0, "", <<"[">>, <<>>)
CloseBracket == Tok("]", 0, "", <<"]">>, <<>>)

\* ContentLexer.readArray: an element that is no string, name or number is an error
readArray(lex) ==
    [err |-> \E i \in 1..Len(lex.elems) : lex.elems[i].k \notin {"str", "hex", "name", "num"},
     tok |-> lex]

NextToken(lex) ==
    IF lex.k = "array" THEN readArray(lex) ELSE [err |-> FALSE, tok |-> lex]

\* the parser's tokenize on one lexeme: the brackets of an array are tokens
RECURSIVE tokenizeLexemes(_)
tokenizeLexemes(lexemes) ==
    IF lexemes = <<>> THEN <<>>
    ELSE LET lex == Head(lexemes)
         IN  (IF lex.k = "array"
              THEN <<OpenBracket>> \o lex.elems \o <<CloseBracket>>
              ELSE <<lex>>) \o tokenizeLexemes(Tail(lexemes))

----------------------------------------------------------------------------
(* History variables *)

PaintOps == {"S", "s", "f", "F", "f*", "B", "B*", "b", "b*"}
EndOps == PaintOps \cup {"n"}
ConstructionOps == {"m", "l", "re", "h", "c", "v", "y"}

NoLast == [op |-> "", args |-> <<>>, own |-> <<>>]

NewHist(cap) ==
    [saved |-> <<>>, savedText |-> <<>>, undone |-> FALSE, built |-> 0, userPts |-> <<>>,
     trace |-> <<>>, cap |-> cap]

CurState == IF impl = "parser" THEN GS(p) ELSE St(e)
CurPath == IF impl = "parser" THEN p.currentPath ELSE St(e).CurrentPath
Lines == IF impl = "parser" THEN p.objects.Lines ELSE e.lines
Rects == IF impl = "parser" THEN p.objects.Rects ELSE e.rects
Chars == IF impl = "parser" THEN p.objects.Chars ELSE e.chars

\* the text sub-state: font, size, spacings, scale, leading, rise, render mode
TextSub ==
    IF impl = "parser" THEN p.textState
    ELSE LET s == St(e)
         IN  [Font |-> s.FontName, FontSize |-> s.FontSize, CharSpace |-> s.CharSpace,
              WordSpace |-> s.WordSpace, Scale |-> s.HScale, Leading |-> s.Leading,
              Rise |-> s.TextRise, RenderMode |-> s.RenderMode]

\* the history after the instruction toks op, which grew the path by grown elements
HistAfter(op, toks, grown) ==
    [hist EXCEPT
        !.saved = IF op = "q" THEN Append(@, CurState)
                  ELSE IF op = "Q" /\ Len(@) > 0 THEN SubSeq(@, 1, Len(@) - 1)
                  ELSE @,
        !.savedText = IF op = "q" THEN Append(@, TextSub)
                      ELSE IF op = "Q" /\ Len(@) > 0 THEN SubSeq(@, 1, Len(@) - 1)
                      ELSE @,
        !.undone = /\ op = "Q"
                   /\ Len(hist.saved) > 0
                   /\ hist.saved[Len(hist.saved)] # CurState,
        !.built = IF op \in EndOps THEN 0
                  ELSE IF op \in ConstructionOps THEN @ + grown
                  ELSE @,
        !.userPts = IF op \in EndOps THEN <<>>
                    ELSE IF op \in {"m", "l"} /\ Len(toks) = 2
                    THEN Append(@, Point(toFloat(toks[1]), toFloat(toks[2])))
                    ELSE IF op = "re" /\ Len(toks) = 4
                    THEN LET x == toFloat(toks[1])
                             y == toFloat(toks[2])
                             w == toFloat(toks[3])
                             h == toFloat(toks[4])
                         IN  @ \o <<Point(x, y), Point(x + w, y),
                                    Point(x + w, y + h), Point(x, y + h)>>
                    ELSE @,
        !.trace = IF Len(@) < hist.cap THEN Append(@, <<op, toks>>) ELSE @]

----------------------------------------------------------------------------
(* One instruction of the stream: operand lexemes, then an identifier op *)

\* Parse: the loop over the tokens of the instruction
ParseStep(op, lexemes) ==
    LET toks == tokenizeLexemes(lexemes)
        args == operands \o toks
    IN  /\ impl = "parser"
        /\ IF isOperator(Ident(op, <<op>>))
           THEN LET after == processOperator(p, op, args)
                IN  /\ p' = after
                    /\ operands' = <<>>
                    /\ last' = [op |-> op, args |-> args, own |-> toks]
                    /\ hist' = HistAfter(op, toks,
                                         Len(after.currentPath) - Len(p.currentPath))
           ELSE /\ p' = p
                /\ operands' = Append(args, Ident(op, <<op>>))
                /\ last' = NoLast
                /\ hist' = HistAfter(op, toks, 0)
        /\ UNCHANGED e

RECURSIVE LexAll(_)
LexAll(lexemes) ==
    IF lexemes = <<>> THEN [err |-> FALSE, values |-> <<>>]
    ELSE LET t == NextToken(Head(lexemes))
             rest == LexAll(Tail(lexemes))
         IN  IF t.err THEN [err |-> TRUE, values |-> <<>>]
             ELSE [err |-> rest.err, values |-> <<t.tok>> \o rest.values]

\* processContentStream: the loop up to and including the operator token
ContentStreamStep(op, lexemes) ==
    LET lexed == LexAll(lexemes)
    IN  /\ impl = "extractor"
        /\ IF lexed.err
           THEN /\ e' = [e EXCEPT !.aborted = TRUE]
                /\ last' = NoLast
                /\ UNCHANGED hist
           ELSE LET after == exProcessOperator(e, op, lexed.values)
                IN  /\ e' = after
                    /\ last' = [op |-> op, args |-> lexed.values, own |-> lexed.values]
                    /\ hist' = HistAfter(op, lexed.values,
                            Len(after.stateStack.heap[Current(after.stateStack)].CurrentPath)
                              - Len(St(e).CurrentPath))
        /\ operands' = <<>>
        /\ UNCHANGED p

\* the loop is running: input remains and no lexer error has ended it
Running == impl \in {"parser", "extractor"} /\ fuel > 0 /\ ~e.aborted

Instr(op, lexemes) ==
    /\ fuel' = fuel - 1
    /\ ParseStep(op, lexemes) \/ ContentStreamStep(op, lexemes)
    /\ UNCHANGED <<impl, tz, cmapRun, page, doc, calc, lx>>

----------------------------------------------------------------------------
(* The instructions the behaviours draw from *)

MaxStateSteps == 5
MaxPathSteps == 4
MaxTextSteps == 5
MaxParseSteps == 4

F1 == Name(<<"F", "1">>)
Hi == Str(<<"H", "i">>)

CmOperands ==
    {<<Num(1), Num(0), Num(0), Num(1), Num(10), Num(0)>>,
     <<Num(2), Num(0), Num(0), Num(2), Num(0), Num(0)>>}
LineOperands == {<<Num(10), Num(0)>>, <<Num(10), Num(10)>>}
ShowOperands == {<<Hi>>, <<>>}
UnknownOperands == {<<>>, <<Num(1), Num(2)>>}
ArrayOperands == {<<Array(<<Hi, Num(5)>>)>>, <<Array(<<Ident("x", <<"x">>)>>)>>}

Op_q ==
    /\ Running
    /\ Instr("q", <<>>)
Op_Q ==
    /\ Running
    /\ Instr("Q", <<>>)
Op_cm ==
    /\ Running
    /\ \E m \in CmOperands : Instr("cm", m)
Op_w ==
    /\ Running
    /\ Instr("w", <<Num(2)>>)
Op_d ==
    /\ Running
    /\ Instr("d", <<Array(<<Num(3)>>), Num(0)>>)
Op_rg ==
    /\ Running
    /\ Instr("rg", <<Num(1), Num(0), Num(0)>>)

Op_m ==
    /\ Running
    /\ Instr("m", <<Num(0), Num(0)>>)
Op_l ==
    /\ Running
    /\ \E pt \in LineOperands : Instr("l", pt)
\* the corners of the square on (0, 0) and (10, 10), and its centre
CornerOperands ==
    {<<Num(10), Num(0)>>, <<Num(10), Num(10)>>, <<Num(0), Num(10)>>, <<Num(5), Num(5)>>}
Op_l_Corner ==
    /\ Running
    /\ \E pt \in CornerOperands : Instr("l", pt)
Op_re ==
    /\ Running
    /\ Instr("re", <<Num(0), Num(0), Num(10), Num(10)>>)
Op_h ==
    /\ Running
    /\ Instr("h", <<>>)
Op_S ==
    /\ Running
    /\ Instr("S", <<>>)
Op_f ==
    /\ Running
    /\ Instr("f", <<>>)
Op_n ==
    /\ Running
    /\ Instr("n", <<>>)

Op_BT ==
    /\ Running
    /\ Instr("BT", <<>>)
Op_ET ==
    /\ Running
    /\ Instr("ET", <<>>)
Op_Tf ==
    /\ Running
    /\ Instr("Tf", <<F1, Num(12)>>)
\* Tf naming F2, which the font table of the page does not hold
Op_Tf_Absent ==
    /\ Running
    /\ Instr("Tf", <<Name(<<"F", "2">>), Num(9)>>)
Op_Td ==
    /\ Running
    /\ Instr("Td", <<Num(100), Num(700)>>)
Op_TL ==
    /\ Running
    /\ Instr("TL", <<Num(14)>>)
Op_Tc ==
    /\ Running
    /\ Instr("Tc", <<Num(1)>>)
Op_Tj ==
    /\ Running
    /\ \E s \in ShowOperands : Instr("Tj", s)
Op_quote ==
    /\ Running
    /\ \E s \in ShowOperands : Instr("'", s)
Op_dquote ==
    /\ Running
    /\ Instr("\"", <<Num(2), Num(1), Hi>>)
Op_TJ ==
    /\ Running
    /\ \E a \in ArrayOperands : Instr("TJ", a)

\* an identifier outside the operator set
Op_unknown ==
    /\ Running
    /\ \E toks \in UnknownOperands : Instr("foo", toks)

----------------------------------------------------------------------------
(* Word extraction: extractors.TextOrganizer, pdf.LedongthucPage,           *)
(* pdf.PDFCPUPage.  Lengths are fixed-point; a slice handed to sort.Slice   *)
(* has at most 12 elements, for which sort.Slice is an insertion sort.      *)

\* insertion of x into the sorted prefix: x moves left while less[x, left neighbour]
RECURSIVE insertionSort_Insert(_, _, _)
insertionSort_Insert(sorted, x, less) ==
    IF sorted = <<>> THEN <<x>>
    ELSE IF less[<<x, sorted[Len(sorted)]>>]
    THEN Append(insertionSort_Insert(SubSeq(sorted, 1, Len(sorted) - 1), x, less),
                sorted[Len(sorted)])
    ELSE Append(sorted, x)

RECURSIVE insertionSort(_, _)
insertionSort(s, less) ==
    IF s = <<>> THEN <<>>
    ELSE insertionSort_Insert(insertionSort(SubSeq(s, 1, Len(s) - 1), less), s[Len(s)], less)

Elems(s) == {s[k] : k \in DOMAIN s}

NewTextOrganizer == [xTolerance |-> Fix(3), yTolerance |-> Fix(3)]
\* the defaults of wordExtractionConfig
DefaultWordExtractionConfig == [XTolerance |-> Fix(3), YTolerance |-> Fix(3)]

\* TextOrganizer.sortCharacters: top to bottom (Y decreasing), then left to right
sortCharacters(to, chars) ==
    insertionSort(chars,
        [pr \in Elems(chars) \X Elems(chars) |->
            IF Abs(pr[1].Y0 - pr[2].Y0) > to.yTolerance
            THEN pr[1].Y0 > pr[2].Y0
            ELSE pr[1].X0 < pr[2].X0])

\* the loop of groupIntoLines from index k on
RECURSIVE groupIntoLines_Loop(_, _, _, _, _, _)
groupIntoLines_Loop(chars, k, lines, currentLine, currentY, yTolerance) ==
    IF k > Len(chars)
    THEN IF Len(currentLine) > 0 THEN Append(lines, currentLine) ELSE lines
    ELSE IF Abs(chars[k].Y0 - currentY) > yTolerance
    THEN groupIntoLines_Loop(chars, k + 1,
             IF Len(currentLine) > 0 THEN Append(lines, currentLine) ELSE lines,
             <<chars[k]>>, chars[k].Y0, yTolerance)
    ELSE groupIntoLines_Loop(chars, k + 1, lines, Append(currentLine, chars[k]),
                             currentY, yTolerance)

groupIntoLines(chars, yTolerance) ==
    IF Len(chars) = 0 THEN <<>>
    ELSE groupIntoLines_Loop(chars, 1, <<>>, <<>>, chars[1].Y0, yTolerance)

RECURSIVE WordText(_)
WordText(chars) == IF chars = <<>> THEN <<>> ELSE chars[1].Text \o WordText(Tail(chars))

\* the bounds createWord folds over the characters
RECURSIVE createWord_Bounds(_, _, _)
createWord_Bounds(chars, k, b) ==
    IF k > Len(chars) THEN b
    ELSE createWord_Bounds(chars, k + 1,
             [X0 |-> Min(b.X0, chars[k].X0), Y0 |-> Min(b.Y0, chars[k].Y0),
              X1 |-> Max(b.X1, chars[k].X1), Y1 |-> Max(b.Y1, chars[k].Y1)])

\* TextOrganizer.createWord
createWord(chars) ==
    [Text |-> WordText(chars),
     BBox |-> createWord_Bounds(chars, 1,
                 [X0 |-> chars[1].X0, Y0 |-> chars[1].Y0, X1 |-> chars[1].X1, Y1 |-> chars[1].Y1]),
     Characters |-> chars]

\* LedongthucPage.createWord and createWord of PDFCPUPage: the Word of package
\* pdf, whose bounds are fields of their own (shown here under BBox)
pdfCreateWord(chars) ==
    IF Len(chars) = 0
    THEN [Text |-> <<>>, BBox |-> [X0 |-> 0, Y0 |-> 0, X1 |-> 0, Y1 |-> 0], Characters |-> <<>>]
    ELSE createWord(chars)

\* the loop of extractWordsFromLine over the sorted line from index i on; the
\* same in TextOrganizer and LedongthucPage
RECURSIVE extractWordsFromLine_Loop(_, _, _, _, _)
extractWordsFromLine_Loop(lineChars, i, words, currentWord, xTolerance) ==
    IF i > Len(lineChars)
    THEN IF Len(currentWord) > 0 THEN Append(words, createWord(currentWord)) ELSE words
    ELSE IF i = 1
    THEN extractWordsFromLine_Loop(lineChars, 2, words, <<lineChars[1]>>, xTolerance)
    ELSE LET char == lineChars[i]
             gap  == char.X0 - lineChars[i - 1].X1
         IN  IF gap > xTolerance \/ gap > MulF(char.Width, 30)
             THEN extractWordsFromLine_Loop(lineChars, i + 1,
                      IF Len(currentWord) > 0 THEN Append(words, createWord(currentWord))
                      ELSE words,
                      <<char>>, xTolerance)
             ELSE extractWordsFromLine_Loop(lineChars, i + 1, words,
                                            Append(currentWord, char), xTolerance)

extractWordsFromLine(lineChars, xTolerance) ==
    IF Len(lineChars) = 0 THEN <<>>
    ELSE extractWordsFromLine_Loop(
             insertionSort(lineChars,
                 [pr \in Elems(lineChars) \X Elems(lineChars) |-> pr[1].X0 < pr[2].X0]),
             1, <<>>, <<>>, xTolerance)

RECURSIVE ExtractWords_Lines(_, _)
ExtractWords_Lines(lines, xTolerance) ==
    IF lines = <<>> THEN <<>>
    ELSE extractWordsFromLine(lines[1], xTolerance) \o ExtractWords_Lines(Tail(lines), xTolerance)

\* TextOrganizer.ExtractWords
ExtractWords(to, chars) ==
    IF Len(chars) = 0 THEN <<>>
    ELSE ExtractWords_Lines(groupIntoLines(sortCharacters(to, chars), to.yTolerance),
                            to.xTolerance)

\* LedongthucPage.ExtractWords: as above, with Y increasing in the sort
LedongthucPage_ExtractWords(chars, config) ==
    IF Len(chars) = 0 THEN <<>>
    ELSE ExtractWords_Lines(
             groupIntoLines(
                 insertionSort(chars,
                     [pr \in Elems(chars) \X Elems(chars) |->
                         IF Abs(pr[1].Y0 - pr[2].Y0) > config.YTolerance
                         THEN pr[1].Y0 < pr[2].Y0
                         ELSE pr[1].X0 < pr[2].X0]),
                 config.YTolerance),
             config.XTolerance)

\* sortCharsByPosition: a bubble sort; the inner loop from j up to limit
RECURSIVE sortCharsByPosition_Inner(_, _, _)
sortCharsByPosition_Inner(chars, j, limit) ==
    IF j > limit THEN chars
    ELSE sortCharsByPosition_Inner(
             IF \/ chars[j].Y0 < chars[j + 1].Y0
                \/ (Abs(chars[j].Y0 - chars[j + 1].Y0) < Fix(1) /\ chars[j].X0 > chars[j + 1].X0)
             THEN [chars EXCEPT ![j] = chars[j + 1], ![j + 1] = chars[j]]
             ELSE chars,
             j + 1, limit)

RECURSIVE sortCharsByPosition_Outer(_, _)
sortCharsByPosition_Outer(chars, i) ==
    IF i >= Len(chars) - 1 THEN chars
    ELSE sortCharsByPosition_Outer(
             sortCharsByPosition_Inner(chars, 1, Len(chars) - i - 1), i + 1)

sortCharsByPosition(chars) == sortCharsByPosition_Outer(chars, 0)

\* the loop of PDFCPUPage.ExtractWords from index i on; lastChar is chars[i - 1]
RECURSIVE PDFCPUPage_ExtractWords_Loop(_, _, _, _, _)
PDFCPUPage_ExtractWords_Loop(chars, i, words, currentWord, config) ==
    IF i > Len(chars)
    THEN IF Len(currentWord) > 0 THEN Append(words, pdfCreateWord(currentWord)) ELSE words
    ELSE LET char    == chars[i]
             newWord ==
                 /\ i > 1
                 /\ \/ Abs(char.Y0 - chars[i - 1].Y0) > config.YTolerance
                    \/ char.X0 - chars[i - 1].X1 > config.XTolerance
                 /\ Len(currentWord) > 0
         IN  PDFCPUPage_ExtractWords_Loop(chars, i + 1,
                 IF newWord THEN Append(words, pdfCreateWord(currentWord)) ELSE words,
                 IF newWord THEN <<char>> ELSE Append(currentWord, char),
                 config)

PDFCPUPage_ExtractWords(chars, config) ==
    IF Len(chars) = 0 THEN <<>>
    ELSE PDFCPUPage_ExtractWords_Loop(sortCharsByPosition(chars), 1, <<>>, <<>>, config)

----------------------------------------------------------------------------
(* Table extraction: pdf.tableExtractor *)

BoundingBox(x0, y0, x1, y1) == [X0 |-> x0, Y0 |-> y0, X1 |-> x1, Y1 |-> y1]
Table(rows, bbox) == [Rows |-> rows, BBox |-> bbox]

\* sort.Float64s of the keys of a map
RECURSIVE SortFloat64s(_)
SortFloat64s(S) ==
    IF S = {} THEN <<>>
    ELSE LET least == CHOOSE x \in S : \A y \in S : x <= y
         IN  <<least>> \o SortFloat64s(S \ {least})

\* math.Round(pos / tolerance) * tolerance, for pos >= 0
SnapTo(pos, tolerance) == ((2 * pos + tolerance) \div (2 * tolerance)) * tolerance

newTableExtractor(verticalStrategy, horizontalStrategy) ==
    [verticalStrategy |-> verticalStrategy, horizontalStrategy |-> horizontalStrategy,
     minTableSize |-> 3, textTolerance |-> Fix(3), snapTolerance |-> Fix(3),
     joinTolerance |-> Fix(3), edgeTolerance |-> Fix(10)]

collectTableLines(te, objects) ==
    [hLines |-> SelectSeq(objects.Lines, LAMBDA line : Abs(line.Y1 - line.Y0) < te.snapTolerance),
     vLines |-> SelectSeq(objects.Lines,
                    LAMBDA line : /\ ~(Abs(line.Y1 - line.Y0) < te.snapTolerance)
                                  /\ Abs(line.X1 - line.X0) < te.snapTolerance)]

\* the edges of the rectangles, as extractLineBasedTables adds them to the lines
RECURSIVE RectEdges(_, _)
RectEdges(rects, horizontal) ==
    IF rects = <<>> THEN <<>>
    ELSE LET rect == rects[1]
             edge(x0, y0, x1, y1) ==
                 [X0 |-> x0, Y0 |-> y0, X1 |-> x1, Y1 |-> y1, Width |-> rect.Width,
                  StrokeColor |-> [R |-> 0, G |-> 0, B |-> 0, A |-> 0]]
         IN  (IF horizontal
              THEN <<edge(rect.X0, rect.Y0, rect.X1, rect.Y0), edge(rect.X0, rect.Y1, rect.X1, rect.Y1)>>
              ELSE <<edge(rect.X0, rect.Y0, rect.X0, rect.Y1), edge(rect.X1, rect.Y0, rect.X1, rect.Y1)>>)
             \o RectEdges(Tail(rects), horizontal)

LinePos(line, horizontal) == IF horizontal THEN line.Y0 ELSE line.X0

\* the loop of groupLines over the sorted lines from index i on
RECURSIVE groupLines_Loop(_, _, _, _, _)
groupLines_Loop(lines, i, groups, currentGroup, horizontal) ==
    IF i > Len(lines) THEN Append(groups, currentGroup)
    ELSE IF Abs(LinePos(lines[i], horizontal) - LinePos(lines[i - 1], horizontal)) > Fix(30)
    THEN groupLines_Loop(lines, i + 1, Append(groups, currentGroup), <<lines[i]>>, horizontal)
    ELSE groupLines_Loop(lines, i + 1, groups, Append(currentGroup, lines[i]), horizontal)

groupLines(lines, horizontal) ==
    IF Len(lines) = 0 THEN <<>>
    ELSE LET sorted == insertionSort(lines,
                           [pr \in Elems(lines) \X Elems(lines) |->
                               LinePos(pr[1], horizontal) < LinePos(pr[2], horizontal)])
         IN  groupLines_Loop(sorted, 2, <<>>, <<sorted[1]>>, horizontal)

\* the keys of posMap
getUniquePositions(te, lines, horizontal) ==
    {SnapTo(LinePos(lines[k], horizontal), te.snapTolerance) : k \in DOMAIN lines}

\* nil is [ok |-> FALSE]
createTableRegion(te, hLines, vLines) ==
    LET hPositions == SortFloat64s(getUniquePositions(te, hLines, TRUE))
        vPositions == SortFloat64s(getUniquePositions(te, vLines, FALSE))
    IN  IF Len(hPositions) < 2 \/ Len(vPositions) < 2
        THEN [ok |-> FALSE, BBox |-> BoundingBox(0, 0, 0, 0), HLines |-> <<>>, VLines |-> <<>>,
              Cells |-> <<>>]
        ELSE [ok     |-> TRUE,
              BBox   |-> BoundingBox(vPositions[1], hPositions[1],
                                     vPositions[Len(vPositions)], hPositions[Len(hPositions)]),
              HLines |-> hPositions,
              VLines |-> vPositions,
              Cells  |-> [i \in 1..(Len(hPositions) - 1) |->
                            [j \in 1..(Len(vPositions) - 1) |->
                                BoundingBox(vPositions[j], hPositions[i],
                                            vPositions[j + 1], hPositions[i + 1])]]]

\* the two loops of findTableRegions, over the pairs of groups in order
RECURSIVE findTableRegions_Loop(_, _, _, _, _)
findTableRegions_Loop(te, hGroups, vGroups, i, j) ==
    IF i > Len(hGroups) THEN <<>>
    ELSE IF j > Len(vGroups) THEN findTableRegions_Loop(te, hGroups, vGroups, i + 1, 1)
    ELSE LET region == createTableRegion(te, hGroups[i], vGroups[j])
         IN  (IF Len(hGroups[i]) >= 2 /\ Len(vGroups[j]) >= 2 /\ region.ok
              THEN <<region>> ELSE <<>>)
             \o findTableRegions_Loop(te, hGroups, vGroups, i, j + 1)

findTableRegions(te, hLines, vLines) ==
    findTableRegions_Loop(te, groupLines(hLines, TRUE), groupLines(vLines, FALSE), 1, 1)

\* the loop of extractCellText that builds the text; lastY and lastX start at -1000
RECURSIVE extractCellText_Loop(_, _, _, _, _)
extractCellText_Loop(te, cellChars, k, lastY, lastX) ==
    IF k > Len(cellChars) THEN <<>>
    ELSE LET char    == cellChars[k]
             newline == lastY > 0 /\ Abs(char.Y0 - lastY) > te.textTolerance
             space   == ~newline /\ lastX > 0 /\ char.X0 - lastX > te.textTolerance
         IN  (IF newline THEN <<"\n">> ELSE IF space THEN <<" ">> ELSE <<>>)
             \o char.Text
             \o extractCellText_Loop(te, cellChars, k + 1, char.Y0, char.X1)

\* a character is in the cell when its centre is
extractCellText(te, cell, chars) ==
    LET cellChars == SelectSeq(chars,
                        LAMBDA char : /\ char.X0 + char.X1 >= 2 * cell.X0
                                      /\ char.X0 + char.X1 <= 2 * cell.X1
                                      /\ char.Y0 + char.Y1 >= 2 * cell.Y0
                                      /\ char.Y0 + char.Y1 <= 2 * cell.Y1)
        sorted == insertionSort(cellChars,
                        [pr \in Elems(cellChars) \X Elems(cellChars) |->
                            IF Abs(pr[1].Y0 - pr[2].Y0) > te.textTolerance
                            THEN pr[1].Y0 < pr[2].Y0
                            ELSE pr[1].X0 < pr[2].X0])
    IN  extractCellText_Loop(te, sorted, 1, Fix(-1000), Fix(-1000))

\* the variant that leaves the cells with no text out of a row
extractTableFromRegion_NoEmptyCells(te, region, objects) ==
    Table([i \in DOMAIN region.Cells |->
              SelectSeq([j \in DOMAIN region.Cells[i] |->
                            extractCellText(te, region.Cells[i][j], objects.Chars)],
                        LAMBDA text : text # <<>>)],
          region.BBox)

extractTableFromRegion(te, region, objects) ==
    Table([i \in DOMAIN region.Cells |->
              [j \in DOMAIN region.Cells[i] |->
                  extractCellText(te, region.Cells[i][j], objects.Chars)]],
          region.BBox)

\* the positions at which at least minCount of the given x values fall, sorted
AlignedColumns(te, xs, minCount) ==
    SortFloat64s({x \in {SnapTo(xs[k], te.snapTolerance) : k \in DOMAIN xs} :
                    Cardinality({k \in DOMAIN xs : SnapTo(xs[k], te.snapTolerance) = x})
                        >= minCount})

findTextColumns(te, chars, minX, maxX) ==
    LET inside == SelectSeq(chars, LAMBDA char : char.X0 >= minX /\ char.X1 <= maxX)
    IN  AlignedColumns(te, [k \in DOMAIN inside |-> inside[k].X0], 3)

\* the index of the column (from 1; 0 when there is none)
findColumnIndex(te, x, columns) ==
    LET hits == {i \in DOMAIN columns :
                    IF i = Len(columns) THEN x >= columns[i] - te.snapTolerance
                    ELSE x >= columns[i] - te.snapTolerance
                         /\ x < columns[i + 1] - te.snapTolerance}
    IN  IF hits = {} THEN 0 ELSE CHOOSE i \in hits : \A j \in hits : i <= j

extractRowFromRectangle(te, rect, chars, columns) ==
    LET rowChars == SelectSeq(chars,
                       LAMBDA char : /\ char.Y0 + char.Y1 >= 2 * rect.Y0
                                     /\ char.Y0 + char.Y1 <= 2 * rect.Y1
                                     /\ char.X0 >= rect.X0 - te.snapTolerance
                                     /\ char.X1 <= rect.X1 + te.snapTolerance)
    IN  [j \in DOMAIN columns |->
            WordText(SelectSeq(rowChars,
                               LAMBDA char : findColumnIndex(te, char.X0, columns) = j))]

removeEmptyColumns(rows) ==
    IF Len(rows) = 0 THEN rows
    ELSE LET numCols == Len(rows[1])
             hasContent == [j \in 1..numCols |->
                               \E i \in DOMAIN rows :
                                   /\ j <= Len(rows[i])
                                   /\ \E c \in Elems(rows[i][j]) : c \notin {" ", "\n", "\t", "\r"}]
             kept(row) == SortFloat64s({j \in DOMAIN row : j <= numCols /\ hasContent[j]})
         IN  [i \in DOMAIN rows |-> [n \in DOMAIN kept(rows[i]) |-> rows[i][kept(rows[i])[n]]]]

\* nil is [ok |-> FALSE]; rects is objects.Rects as the call leaves it (the sort
\* is in place)
extractTableFromRowRectangles(te, objects) ==
    LET rects   == objects.Rects
        none(r) == [ok |-> FALSE, table |-> Table(<<>>, BoundingBox(0, 0, 0, 0)), rects |-> r]
        minX    == rects[1].X0
        maxX    == rects[1].X1
        sorted  == insertionSort(rects,
                       [pr \in Elems(rects) \X Elems(rects) |-> pr[1].Y1 > pr[2].Y1])
        columns == findTextColumns(te, objects.Chars, minX, maxX)
        rows    == [k \in DOMAIN sorted |->
                       extractRowFromRectangle(te, sorted[k], objects.Chars, columns)]
    IN  IF Len(rects) < te.minTableSize THEN none(rects)
        ELSE IF \E k \in DOMAIN rects :
                   \/ Abs(rects[k].X0 - minX) > te.snapTolerance
                   \/ Abs(rects[k].X1 - maxX) > te.snapTolerance
        THEN none(rects)
        ELSE IF Len(columns) < 2 THEN none(sorted)
        ELSE IF Len(rows) < te.minTableSize THEN none(sorted)
        ELSE [ok    |-> TRUE,
              table |-> Table(removeEmptyColumns(rows),
                              BoundingBox(minX, sorted[1].Y0, maxX, sorted[Len(sorted)].Y1)),
              rects |-> sorted]

\* extractLineBasedTables: the row table, when the rectangles give one
lineBasedRowTable(te, objects) ==
    IF Len(objects.Rects) > te.minTableSize
    THEN extractTableFromRowRectangles(te, objects)
    ELSE [ok |-> FALSE, table |-> Table(<<>>, BoundingBox(0, 0, 0, 0)), rects |-> objects.Rects]

\* extractLineBasedTables: the regions of the lines and the rectangle edges
lineBasedRegions(te, objects) ==
    LET rects == lineBasedRowTable(te, objects).rects
        lines == collectTableLines(te, objects)
    IN  findTableRegions(te, lines.hLines \o RectEdges(rects, TRUE),
                             lines.vLines \o RectEdges(rects, FALSE))

RECURSIVE extractLineBasedTables_Regions(_, _, _)
extractLineBasedTables_Regions(te, regions, objects) ==
    IF regions = <<>> THEN <<>>
    ELSE LET table == extractTableFromRegion(te, regions[1], objects)
         IN  (IF Len(table.Rows) >= te.minTableSize THEN <<table>> ELSE <<>>)
             \o extractLineBasedTables_Regions(te, Tail(regions), objects)

extractLineBasedTables(te, objects) ==
    LET rowTable == lineBasedRowTable(te, objects)
    IN  IF rowTable.ok /\ Len(rowTable.table.Rows) >= te.minTableSize
        THEN <<rowTable.table>>
        ELSE extractLineBasedTables_Regions(te, lineBasedRegions(te, objects), objects)

finalizeWordLine(line) ==
    LET sorted == insertionSort(line.Words,
                      [pr \in Elems(line.Words) \X Elems(line.Words) |->
                          pr[1].BBox.X0 < pr[2].BBox.X0])
        b == createWord_Bounds([k \in DOMAIN sorted |-> sorted[k].BBox], 1, sorted[1].BBox)
    IN  [Words |-> sorted,
         BBox  |-> BoundingBox(sorted[1].BBox.X0, b.Y0, sorted[Len(sorted)].BBox.X1, b.Y1),
         Y     |-> line.Y]

\* the loop of groupWordsIntoLines over the sorted words from index i on
RECURSIVE groupWordsIntoLines_Loop(_, _, _, _, _)
groupWordsIntoLines_Loop(te, sortedWords, i, lines, currentLine) ==
    IF i > Len(sortedWords) THEN Append(lines, finalizeWordLine(currentLine))
    ELSE IF Abs(sortedWords[i].BBox.Y0 - currentLine.Y) < te.textTolerance
    THEN groupWordsIntoLines_Loop(te, sortedWords, i + 1, lines,
             [currentLine EXCEPT !.Words = Append(@, sortedWords[i])])
    ELSE groupWordsIntoLines_Loop(te, sortedWords, i + 1,
             Append(lines, finalizeWordLine(currentLine)),
             [Words |-> <<sortedWords[i]>>, BBox |-> BoundingBox(0, 0, 0, 0),
              Y |-> sortedWords[i].BBox.Y0])

groupWordsIntoLines(te, words) ==
    IF Len(words) = 0 THEN <<>>
    ELSE LET sortedWords == insertionSort(words,
                                [pr \in Elems(words) \X Elems(words) |->
                                    pr[1].BBox.Y0 < pr[2].BBox.Y0])
         IN  groupWordsIntoLines_Loop(te, sortedWords, 2, <<>>,
                 [Words |-> <<sortedWords[1]>>, BBox |-> BoundingBox(0, 0, 0, 0),
                  Y |-> sortedWords[1].BBox.Y0])

RECURSIVE WordStarts(_)
WordStarts(lines) ==
    IF lines = <<>> THEN <<>>
    ELSE [k \in DOMAIN lines[1].Words |-> lines[1].Words[k].BBox.X0] \o WordStarts(Tail(lines))

findAlignedColumnsFromWords(te, lines) ==
    IF Len(lines) < 2 THEN <<>>
    ELSE AlignedColumns(te, WordStarts(lines), Max(2, (Len(lines) * 3) \div 10))

\* the index of the nearest column within 3 x snapTolerance (from 1; 0 when
\* there is none); of two columns equally near, the first
findWordColumn(te, wordX, columns) ==
    LET near == {i \in DOMAIN columns : Abs(wordX - columns[i]) < te.snapTolerance * 3}
    IN  IF near = {} THEN 0
        ELSE CHOOSE i \in near :
                \A j \in near : \/ Abs(wordX - columns[i]) < Abs(wordX - columns[j])
                                \/ (Abs(wordX - columns[i]) = Abs(wordX - columns[j]) /\ i <= j)

\* the words of a cell joined by single spaces
RECURSIVE JoinWords(_)
JoinWords(words) ==
    IF words = <<>> THEN <<>>
    ELSE IF Len(words) = 1 THEN words[1].Text
    ELSE words[1].Text \o <<" ">> \o JoinWords(Tail(words))

createTableFromWordLines(te, lines, columns) ==
    Table([i \in DOMAIN lines |->
              [c \in DOMAIN columns |->
                  JoinWords(SelectSeq(lines[i].Words,
                      LAMBDA word : findWordColumn(te, word.BBox.X0, columns) = c))]],
          createWord_Bounds([k \in DOMAIN lines |-> lines[k].BBox], 1, lines[1].BBox))

\* words is te.page.ExtractWords()
extractTextBasedTables(te, objects, words) ==
    LET lines   == groupWordsIntoLines(te, words)
        columns == findAlignedColumnsFromWords(te, lines)
        table   == createTableFromWordLines(te, lines, columns)
    IN  IF Len(words) = 0 THEN <<>>
        ELSE IF Len(columns) > 1 /\ Len(lines) >= te.minTableSize
                /\ Len(table.Rows) >= te.minTableSize
        THEN <<table>>
        ELSE <<>>

\* objects is te.page.GetObjects(), words is te.page.ExtractWords()
ExtractTables(te, objects, words) ==
    LET tables == IF te.verticalStrategy = "lines" \/ te.horizontalStrategy = "lines"
                  THEN extractLineBasedTables(te, objects)
                  ELSE <<>>
    IN  IF Len(tables) = 0
        THEN tables \o extractTextBasedTables(te, objects, words)
        ELSE tables

----------------------------------------------------------------------------
(* pdf.tableExtractor, the earlier copy of the file: groups of lines end at
   a gap of 50, the positions of a region come from both ends of its lines,
   there is no table of row rectangles, and the text strategy works on the
   characters and runs only when a strategy is "text" *)

RECURSIVE Earlier_groupLines_Loop(_, _, _, _, _)
Earlier_groupLines_Loop(lines, i, groups, currentGroup, horizontal) ==
    IF i > Len(lines) THEN Append(groups, currentGroup)
    ELSE IF Abs(LinePos(lines[i], horizontal) - LinePos(lines[i - 1], horizontal)) > Fix(50)
    THEN Earlier_groupLines_Loop(lines, i + 1, Append(groups, currentGroup), <<lines[i]>>,
                                 horizontal)
    ELSE Earlier_groupLines_Loop(lines, i + 1, groups, Append(currentGroup, lines[i]),
                                 horizontal)

Earlier_groupLines(lines, horizontal) ==
    IF Len(lines) = 0 THEN <<>>
    ELSE LET sorted == insertionSort(lines,
                           [pr \in Elems(lines) \X Elems(lines) |->
                               LinePos(pr[1], horizontal) < LinePos(pr[2], horizontal)])
         IN  Earlier_groupLines_Loop(sorted, 2, <<>>, <<sorted[1]>>, horizontal)

\* the keys of posMap: the start and the end position of every line
Earlier_getUniquePositions(te, lines, horizontal) ==
    {SnapTo(LinePos(lines[k], horizontal), te.snapTolerance) : k \in DOMAIN lines}
        \cup {SnapTo(IF horizontal THEN lines[k].Y1 ELSE lines[k].X1, te.snapTolerance) :
                 k \in DOMAIN lines}

Earlier_createTableRegion(te, hLines, vLines) ==
    LET hPositions == SortFloat64s(Earlier_getUniquePositions(te, hLines, TRUE))
        vPositions == SortFloat64s(Earlier_getUniquePositions(te, vLines, FALSE))
    IN  IF Len(hPositions) < 2 \/ Len(vPositions) < 2
        THEN [ok |-> FALSE, BBox |-> BoundingBox(0, 0, 0, 0), HLines |-> <<>>, VLines |-> <<>>,
              Cells |-> <<>>]
        ELSE [ok     |-> TRUE,
              BBox   |-> BoundingBox(vPositions[1], hPositions[1],
                                     vPositions[Len(vPositions)], hPositions[Len(hPositions)]),
              HLines |-> hPositions,
              VLines |-> vPositions,
              Cells  |-> [i \in 1..(Len(hPositions) - 1) |->
                            [j \in 1..(Len(vPositions) - 1) |->
                                BoundingBox(vPositions[j], hPositions[i],
                                            vPositions[j + 1], hPositions[i + 1])]]]

RECURSIVE Earlier_findTableRegions_Loop(_, _, _, _, _)
Earlier_findTableRegions_Loop(te, hGroups, vGroups, i, j) ==
    IF i > Len(hGroups) THEN <<>>
    ELSE IF j > Len(vGroups) THEN Earlier_findTableRegions_Loop(te, hGroups, vGroups, i + 1, 1)
    ELSE LET region == Earlier_createTableRegion(te, hGroups[i], vGroups[j])
         IN  (IF Len(hGroups[i]) >= 2 /\ Len(vGroups[j]) >= 2 /\ region.ok
              THEN <<region>> ELSE <<>>)
             \o Earlier_findTableRegions_Loop(te, hGroups, vGroups, i, j + 1)

Earlier_findTableRegions(te, hLines, vLines) ==
    Earlier_findTableRegions_Loop(te, Earlier_groupLines(hLines, TRUE),
                                  Earlier_groupLines(vLines, FALSE), 1, 1)

Earlier_extractLineBasedTables(te, objects) ==
    LET lines == collectTableLines(te, objects)
    IN  extractLineBasedTables_Regions(te,
            Earlier_findTableRegions(te, lines.hLines \o RectEdges(objects.Rects, TRUE),
                                         lines.vLines \o RectEdges(objects.Rects, FALSE)),
            objects)

finalizeLine(line) ==
    LET sorted == insertionSort(line.Chars,
                      [pr \in Elems(line.Chars) \X Elems(line.Chars) |-> pr[1].X0 < pr[2].X0])
        b == createWord_Bounds([k \in DOMAIN sorted |->
                                   BoundingBox(sorted[k].X0, sorted[k].Y0,
                                               sorted[k].X1, sorted[k].Y1)],
                               1, BoundingBox(sorted[1].X0, sorted[1].Y0,
                                              sorted[1].X1, sorted[1].Y1))
    IN  [Chars |-> sorted,
         BBox  |-> BoundingBox(sorted[1].X0, b.Y0, sorted[Len(sorted)].X1, b.Y1),
         Y     |-> line.Y]

\* the loop of groupCharsIntoLines over the sorted characters from index i on
RECURSIVE groupCharsIntoLines_Loop(_, _, _, _, _)
groupCharsIntoLines_Loop(te, sortedChars, i, lines, currentLine) ==
    IF i > Len(sortedChars) THEN Append(lines, finalizeLine(currentLine))
    ELSE IF Abs(sortedChars[i].Y0 - currentLine.Y) < te.textTolerance
    THEN groupCharsIntoLines_Loop(te, sortedChars, i + 1, lines,
             [currentLine EXCEPT !.Chars = Append(@, sortedChars[i])])
    ELSE groupCharsIntoLines_Loop(te, sortedChars, i + 1,
             Append(lines, finalizeLine(currentLine)),
             [Chars |-> <<sortedChars[i]>>, BBox |-> BoundingBox(0, 0, 0, 0),
              Y |-> sortedChars[i].Y0])

groupCharsIntoLines(te, chars) ==
    IF Len(chars) = 0 THEN <<>>
    ELSE LET sortedChars == insertionSort(chars,
                                [pr \in Elems(chars) \X Elems(chars) |-> pr[1].Y0 < pr[2].Y0])
         IN  groupCharsIntoLines_Loop(te, sortedChars, 2, <<>>,
                 [Chars |-> <<sortedChars[1]>>, BBox |-> BoundingBox(0, 0, 0, 0),
                  Y |-> sortedChars[1].Y0])

RECURSIVE CharStarts(_)
CharStarts(lines) ==
    IF lines = <<>> THEN <<>>
    ELSE [k \in DOMAIN lines[1].Chars |-> lines[1].Chars[k].X0] \o CharStarts(Tail(lines))

findAlignedColumns(te, lines) ==
    IF Len(lines) < 2 THEN <<>>
    ELSE AlignedColumns(te, CharStarts(lines), Len(lines) \div 2)

\* the index of the column (from 1; 0 for -1)
Earlier_findColumnIndex(x, columns) ==
    IF \E i \in 1..(Len(columns) - 1) : x >= columns[i] /\ x < columns[i + 1]
    THEN CHOOSE i \in 1..(Len(columns) - 1) :
            /\ x >= columns[i] /\ x < columns[i + 1]
            /\ \A j \in 1..(i - 1) : ~(x >= columns[j] /\ x < columns[j + 1])
    ELSE IF Len(columns) > 0 /\ x >= columns[Len(columns)] THEN Len(columns)
    ELSE 0

RECURSIVE JoinChars(_)
JoinChars(chars) ==
    IF chars = <<>> THEN <<>> ELSE chars[1].Text \o JoinChars(Tail(chars))

createTableFromTextLines(te, lines, columns) ==
    Table([i \in DOMAIN lines |->
              [c \in DOMAIN columns |->
                  JoinChars(SelectSeq(lines[i].Chars,
                      LAMBDA char : Earlier_findColumnIndex(char.X0, columns) = c))]],
          IF Len(lines) > 0
          THEN createWord_Bounds([k \in DOMAIN lines |-> lines[k].BBox], 1, lines[1].BBox)
          ELSE BoundingBox(0, 0, 0, 0))

Earlier_extractTextBasedTables(te, objects) ==
    LET lines   == groupCharsIntoLines(te, objects.Chars)
        columns == findAlignedColumns(te, lines)
        table   == createTableFromTextLines(te, lines, columns)
    IN  IF Len(objects.Chars) = 0 THEN <<>>
        ELSE IF Len(columns) > 1 /\ Len(table.Rows) >= te.minTableSize
        THEN <<table>>
        ELSE <<>>

Earlier_ExtractTables(te, objects) ==
    LET tables == IF te.verticalStrategy = "lines" \/ te.horizontalStrategy = "lines"
                  THEN Earlier_extractLineBasedTables(te, objects)
                  ELSE <<>>
    IN  IF Len(tables) = 0 /\ (te.verticalStrategy = "text" \/ te.horizontalStrategy = "text")
        THEN tables \o Earlier_extractTextBasedTables(te, objects)
        ELSE tables

\* a page of which nothing has been extracted
NoPage ==
    [chars |-> <<>>, lines |-> <<>>, rects |-> <<>>, by |-> "", words |-> <<>>,
     reran |-> FALSE, again |-> <<>>, te |-> newTableExtractor("lines", "lines"),
     tables |-> <<>>]

\* no document
NoDoc == [kind |-> "", Objects |-> {}, Font |-> <<>>, proc |-> <<>>]

\* no matrix product
NoCalc == [by |-> "", A |-> IdentityMatrix, B |-> IdentityMatrix, C |-> IdentityMatrix]

\* no lexer
NoLexer == [l |-> [stream |-> <<>>, pushedTokens |-> <<>>, unreads |-> 0],
            input |-> <<>>, out |-> <<>>, err |-> ""]

----------------------------------------------------------------------------
(* Specifications *)

NoTokenizer == [data |-> <<>>, i |-> 0, tokens |-> <<>>]

InitInterpreter(steps, cap) ==
    /\ impl \in {"parser", "extractor"}
    /\ fuel = steps
    /\ operands = <<>>
    /\ last = NoLast
    /\ p = NewContentStreamParser
    /\ e = NewContentExtractor
    /\ hist = NewHist(cap)
    /\ tz = NoTokenizer
    /\ cmapRun = NoCMapRun
    /\ page = NoPage
    /\ doc = NoDoc
    /\ calc = NoCalc
    /\ lx = NoLexer

\* graphics state: q, Q and the operators that change the state between them
InitState == InitInterpreter(MaxStateSteps, 0)
NextState == Op_q \/ Op_Q \/ Op_cm \/ Op_w \/ Op_d \/ Op_rg \/ Op_m
SpecState == InitState /\ [][NextState]_vars

\* the state stack: q and Q in any order, the instructions recorded
MaxStackSteps == 6
InitStack == InitInterpreter(MaxStackSteps, MaxStackSteps)
NextStack == Op_q \/ Op_Q \/ Op_cm
SpecStack == InitStack /\ [][NextStack]_vars

\* paths: construction, painting, and a CTM that changes in between
InitPath == InitInterpreter(MaxPathSteps, 0)
NextPath ==
    Op_m \/ Op_l \/ Op_re \/ Op_h \/ Op_S \/ Op_f \/ Op_n \/ Op_cm \/ Op_q \/ Op_Q
SpecPath == InitPath /\ [][NextPath]_vars

\* text: the instruction history is kept for the first MaxTextSteps instructions
InitText == InitInterpreter(MaxTextSteps, MaxTextSteps)
NextText == Op_BT \/ Op_ET \/ Op_Tf \/ Op_Td \/ Op_TL \/ Op_Tj \/ Op_quote
SpecText == InitText /\ [][NextText]_vars

\* paths that are filled
MaxFillSteps == 6
InitFill == InitInterpreter(MaxFillSteps, 0)
NextFill == Op_m \/ Op_l_Corner \/ Op_re \/ Op_h \/ Op_f
SpecFill == InitFill /\ [][NextFill]_vars

\* Tf with a font the page holds and with one it does not
MaxFontSteps == 5
InitFont == InitInterpreter(MaxFontSteps, 0)
NextFont == Op_BT \/ Op_Tf \/ Op_Tf_Absent \/ Op_Tj \/ Op_q \/ Op_Q
SpecFont == InitFont /\ [][NextFont]_vars

\* the two operators that move to the next line and show a string
MaxShowSteps == 5
InitShow == InitInterpreter(MaxShowSteps, 0)
NextShow == Op_BT \/ Op_Tf \/ Op_Td \/ Op_TL \/ Op_quote \/ Op_dquote
SpecShow == InitShow /\ [][NextShow]_vars

\* the text sub-state across q and Q
MaxTextStateSteps == 5
InitTextState == InitInterpreter(MaxTextStateSteps, 0)
NextTextState == Op_q \/ Op_Q \/ Op_Tf \/ Op_TL \/ Op_Tc
SpecTextState == InitTextState /\ [][NextTextState]_vars

\* malformed instructions among well-formed ones
InitParse == InitInterpreter(MaxParseSteps, 0)
NextParse == Op_unknown \/ Op_TJ \/ Op_Q \/ Op_m \/ Op_l \/ Op_S \/ Op_w
SpecParse == InitParse /\ [][NextParse]_vars

----------------------------------------------------------------------------
(* ContentStreamParser.tokenize, byte by byte.  tz.i is the bytes.Reader's  *)
(* index: ReadByte at the end fails and leaves it, UnreadByte steps it back *)
(* whenever it is positive, also after a ReadByte that failed.              *)

MaxBytes == 3
MaxTokenizeSteps == 4

NUL == "NUL"
ByteAlphabet == {" ", "\n", "(", ")", "<", ">", "[", "]", "/", "%", "\\", "a"}

isWhitespace(b) == b \in {" ", "\t", "\n", "\r", "\f", NUL}
isDelimiter(b) == b \in {"(", ")", "<", ">", "[", "]", "{", "}", "/", "%"}

\* reader.UnreadByte()
UnreadByte(i) == IF i > 0 THEN i - 1 ELSE i

RECURSIVE readStringLiteral(_, _, _, _)
readStringLiteral(data, i, depth, result) ==
    IF i >= Len(data) THEN [i |-> i, out |-> result]
    ELSE LET b == data[i + 1]
         IN  IF b = "\\"
             THEN LET more == i + 1 < Len(data)
                      next == IF more THEN data[i + 2] ELSE NUL
                  IN  readStringLiteral(data, IF more THEN i + 2 ELSE i + 1, depth,
                                        result \o <<"\\", next>>)
             ELSE IF b = "("
             THEN readStringLiteral(data, i + 1, depth + 1, Append(result, b))
             ELSE IF b = ")"
             THEN IF depth - 1 = 0 THEN [i |-> i + 1, out |-> result]
                  ELSE readStringLiteral(data, i + 1, depth - 1, Append(result, b))
             ELSE readStringLiteral(data, i + 1, depth, Append(result, b))

RECURSIVE readHexString(_, _, _)
readHexString(data, i, result) ==
    IF i >= Len(data) THEN [i |-> i, out |-> result]
    ELSE LET b == data[i + 1]
         IN  IF b = ">" THEN [i |-> i + 1, out |-> result]
             ELSE readHexString(data, i + 1,
                                IF isWhitespace(b) THEN result ELSE Append(result, b))

RECURSIVE readName(_, _, _)
readName(data, i, result) ==
    IF i >= Len(data) THEN [i |-> i, out |-> result]
    ELSE LET b == data[i + 1]
         IN  IF isDelimiter(b) \/ isWhitespace(b)
             THEN [i |-> UnreadByte(i + 1), out |-> result]
             ELSE readName(data, i + 1, Append(result, b))

RECURSIVE readToken(_, _, _)
readToken(data, i, result) ==
    IF i >= Len(data) THEN [i |-> i, out |-> result]
    ELSE LET b == data[i + 1]
         IN  IF isDelimiter(b) \/ isWhitespace(b)
             THEN [i |-> UnreadByte(i + 1), out |-> result]
             ELSE readToken(data, i + 1, Append(result, b))

RECURSIVE skipComment(_, _)
skipComment(data, i) ==
    IF i >= Len(data) THEN i
    ELSE IF data[i + 1] \in {"\n", "\r"} THEN i + 1
    ELSE skipComment(data, i + 1)

\* for reader.Len() > 0 { b, err := reader.ReadByte() ...: an iteration that reads b
Iteration(b) ==
    /\ impl = "tokenizer"
    /\ fuel > 0
    /\ tz.i < Len(tz.data)
    /\ tz.data[tz.i + 1] = b
    /\ fuel' = fuel - 1
    /\ UNCHANGED <<impl, operands, last, p, e, hist, cmapRun, page, doc, calc, lx>>

tokenize_whitespace ==
    /\ \E b \in {" ", "\n"} : Iteration(b)
    /\ tz' = [tz EXCEPT !.i = tz.i + 1]

tokenize_string ==
    /\ Iteration("(")
    /\ LET r == readStringLiteral(tz.data, tz.i + 1, 1, <<>>)
       IN  tz' = [tz EXCEPT !.i = r.i,
                            !.tokens = Append(@, <<"(">> \o r.out \o <<")">>)]

\* case '<': next, _ := reader.ReadByte()
tokenize_hex ==
    /\ Iteration("<")
    /\ LET more == tz.i + 1 < Len(tz.data)
           next == IF more THEN tz.data[tz.i + 2] ELSE NUL
           read == IF more THEN tz.i + 2 ELSE tz.i + 1
           r == readHexString(tz.data, UnreadByte(read), <<>>)
       IN  IF next = "<"
           THEN tz' = [tz EXCEPT !.i = read, !.tokens = Append(@, <<"<", "<">>)]
           ELSE tz' = [tz EXCEPT !.i = r.i,
                                 !.tokens = Append(@, <<"<">> \o r.out \o <<">">>)]

\* case '>': next, _ := reader.ReadByte()
tokenize_dictEnd ==
    /\ Iteration(">")
    /\ LET more == tz.i + 1 < Len(tz.data)
           next == IF more THEN tz.data[tz.i + 2] ELSE NUL
           read == IF more THEN tz.i + 2 ELSE tz.i + 1
       IN  IF next = ">"
           THEN tz' = [tz EXCEPT !.i = read, !.tokens = Append(@, <<">", ">">>)]
           ELSE tz' = [tz EXCEPT !.i = UnreadByte(read)]

tokenize_bracket ==
    \E b \in {"[", "]"} :
        /\ Iteration(b)
        /\ tz' = [tz EXCEPT !.i = tz.i + 1, !.tokens = Append(@, <<b>>)]

tokenize_name ==
    /\ Iteration("/")
    /\ LET r == readName(tz.data, tz.i + 1, <<>>)
       IN  tz' = [tz EXCEPT !.i = r.i, !.tokens = Append(@, <<"/">> \o r.out)]

tokenize_comment ==
    /\ Iteration("%")
    /\ tz' = [tz EXCEPT !.i = skipComment(tz.data, tz.i + 1)]

\* default: reader.UnreadByte(); token := p.readToken(reader)
tokenize_default ==
    \E b \in {")", "\\", "a"} :
        /\ Iteration(b)
        /\ LET r == readToken(tz.data, UnreadByte(tz.i + 1), <<>>)
           IN  tz' = [tz EXCEPT !.i = r.i,
                                !.tokens = IF r.out # <<>> THEN Append(@, r.out) ELSE @]

\* every byte sequence of at most MaxBytes bytes
ByteSeqs == UNION {[1..n -> ByteAlphabet] : n \in 0..MaxBytes}

InitTokenize ==
    /\ impl = "tokenizer"
    /\ fuel = MaxTokenizeSteps
    /\ operands = <<>>
    /\ last = NoLast
    /\ p = NewContentStreamParser
    /\ e = NewContentExtractor
    /\ hist = NewHist(0)
    /\ tz \in {[data |-> d, i |-> 0, tokens |-> <<>>] : d \in ByteSeqs}
    /\ cmapRun = NoCMapRun
    /\ page = NoPage
    /\ doc = NoDoc
    /\ calc = NoCalc
    /\ lx = NoLexer

NextTokenize ==
    \/ tokenize_whitespace \/ tokenize_string \/ tokenize_hex \/ tokenize_dictEnd
    \/ tokenize_bracket \/ tokenize_name \/ tokenize_comment \/ tokenize_default
SpecTokenize == InitTokenize /\ [][NextTokenize]_vars

----------------------------------------------------------------------------
(* ToUnicode CMap: one Parse of a CMap stream into a new CMap, then lookups *)

MaxBlocks == 2

Count == CMapTok("int", <<>>)
Hex4(n) == Hex(<<n \div 4096, (n \div 256) % 16, (n \div 16) % 16, n % 16>>)

BFChar(counted, mappings) ==
    (IF counted THEN <<Count>> ELSE <<>>)
        \o <<CMapTok("beginbfchar", <<>>)>> \o mappings \o <<CMapTok("endbfchar", <<>>)>>
BFRange(counted, mappings) ==
    (IF counted THEN <<Count>> ELSE <<>>)
        \o <<CMapTok("beginbfrange", <<>>)>> \o mappings \o <<CMapTok("endbfrange", <<>>)>>

\* beginbfchar <0001> <0041> endbfchar and
\* beginbfrange <0001> <0005> <0041> endbfrange, written without a count
BFCharText == BFChar(FALSE, <<Hex4(1), Hex4(65)>>)
BFRangeText == BFRange(FALSE, <<Hex4(1), Hex4(5), Hex4(65)>>)

\* blocks in the format  N beginbf... endbf...
CountedBlocks ==
    { BFChar(TRUE, <<Hex4(1), Hex4(65)>>),
      BFChar(TRUE, <<Hex4(3), Hex4(88)>>),
      BFRange(TRUE, <<Hex4(1), Hex4(5), Hex4(65)>>),
      BFRange(TRUE, <<Hex4(3), Hex4(6), Hex4(97)>>),
      BFRange(TRUE, <<Hex4(1), Hex4(2), CMapTok("array", <<>>)>>) }

\* a value that is not closed, a value of three digits, a range with no
\* destination
MalformedBlocks ==
    { BFChar(TRUE, <<Hex4(2), CMapTok("other", <<>>)>>),
      BFChar(TRUE, <<Hex4(2), Hex(<<0, 4, 2>>)>>),
      BFRange(TRUE, <<Hex4(7), Hex4(8)>>) }

Blocks == CountedBlocks \cup MalformedBlocks \cup {BFCharText, BFRangeText}

\* a CMap stream: at most MaxBlocks blocks
CMapStreams == UNION {[1..n -> Blocks] : n \in 1..MaxBlocks}

RECURSIVE Content(_)
Content(blocks) == IF blocks = <<>> THEN <<>> ELSE blocks[1] \o Content(Tail(blocks))

LookupCIDs == {1, 3, 6}
HexStrings == {<<0, 0, 0, 1>>, <<0, 0, 0, 1, 0, 0, 0, 6>>, <<0, 0, 0>>}
ByteStrings == {<<0, 1>>, <<0, 6>>, <<0, 1, 0, 3>>, <<1>>}
Encodings == {"Identity-H", "WinAnsiEncoding"}

\* a parser whose current font is F1 with the given encoding and CMap
ParserWithFont(encoding, toUnicodeCMap) ==
    [NewContentStreamParser EXCEPT
        !.fonts = [n \in {<<"F", "1">>} |-> FontInfo(n, encoding, toUnicodeCMap)],
        !.textState.Font = <<"F", "1">>]

cmap_Parse ==
    /\ impl = "cmap"
    /\ cmapRun.blocks = <<>>
    /\ \E blocks \in CMapStreams :
          LET r == CMapParse(cmapRun.obj, Content(blocks))
          IN  cmapRun' = [cmapRun EXCEPT !.obj = r.cmap, !.blocks = blocks, !.err = r.err]
    /\ UNCHANGED <<impl, fuel, operands, last, p, e, hist, tz, page, doc, calc, lx>>

cmap_MapCIDToUnicode ==
    /\ impl = "cmap"
    /\ cmapRun.blocks # <<>>
    /\ \E cid \in LookupCIDs :
          cmapRun' = [cmapRun EXCEPT !.call =
                      [NoCall EXCEPT !.fn = "MapCIDToUnicode", !.cid = cid,
                                     !.found = MapCIDToUnicode(cmapRun.obj, cid)]]
    /\ UNCHANGED <<impl, fuel, operands, last, p, e, hist, tz, page, doc, calc, lx>>

cmap_DecodeHexString ==
    /\ impl = "cmap"
    /\ cmapRun.blocks # <<>>
    /\ \E hexStr \in HexStrings :
          cmapRun' = [cmapRun EXCEPT !.call =
                      [NoCall EXCEPT !.fn = "DecodeHexString", !.data = hexStr,
                                     !.text = DecodeHexString(cmapRun.obj, hexStr)]]
    /\ UNCHANGED <<impl, fuel, operands, last, p, e, hist, tz, page, doc, calc, lx>>

cmap_decodeString ==
    /\ impl = "cmap"
    /\ cmapRun.blocks # <<>>
    /\ \E str \in ByteStrings, encoding \in Encodings :
          cmapRun' = [cmapRun EXCEPT !.call =
                      [NoCall EXCEPT !.fn = "decodeString", !.data = str,
                                     !.encoding = encoding,
                                     !.text = decodeString(ParserWithFont(encoding, cmapRun.obj), str)]]
    /\ UNCHANGED <<impl, fuel, operands, last, p, e, hist, tz, page, doc, calc, lx>>

InitCMap ==
    /\ impl = "cmap"
    /\ fuel = 0
    /\ operands = <<>>
    /\ last = NoLast
    /\ p = NewContentStreamParser
    /\ e = NewContentExtractor
    /\ hist = NewHist(0)
    /\ tz = NoTokenizer
    /\ cmapRun = NoCMapRun
    /\ page = NoPage
    /\ doc = NoDoc
    /\ calc = NoCalc
    /\ lx = NoLexer

NextCMap == cmap_Parse \/ cmap_MapCIDToUnicode \/ cmap_DecodeHexString \/ cmap_decodeString
SpecCMap == InitCMap /\ [][NextCMap]_vars

----------------------------------------------------------------------------
(* Word extraction from the characters of a page, by each of the three      *)
(* implementations, and once more from the words of the TextOrganizer       *)

MaxChars == 3

CharWidths == {Fix(5), Fix(20)}
CharGaps == {Fix(0), Fix(2), Fix(4), Fix(7)}
CharRows == {Fix(100), Fix(80)}
Letters == <<"a", "b", "c", "d">>

\* characters k.. of a page: each starts gaps[k] after the right edge of the one
\* before it (the first at x), is widths[k] wide, 10 high, and sits on rows[k]
RECURSIVE CharsFrom(_, _, _, _, _)
CharsFrom(widths, gaps, rows, k, x) ==
    IF k > Len(widths) THEN <<>>
    ELSE <<CharObject(<<Letters[k]>>, "F1", Fix(10), x + gaps[k], rows[k],
                      x + gaps[k] + widths[k], rows[k] + Fix(10), widths[k], Fix(10),
                      Color(0, 0, 0))>>
         \o CharsFrom(widths, gaps, rows, k + 1, x + gaps[k] + widths[k])

PageChars ==
    UNION {{CharsFrom(widths, gaps, rows, 1, Fix(50)) :
                widths \in [1..n -> CharWidths],
                gaps \in {g \in [1..n -> CharGaps] : g[1] = Fix(0)},
                rows \in [1..n -> CharRows]} : n \in 1..MaxChars}

\* a word as one character with the word's text and bounding box
WordAsChar(w) ==
    CharObject(w.Text, "F1", Fix(10), w.BBox.X0, w.BBox.Y0, w.BBox.X1, w.BBox.Y1,
               w.BBox.X1 - w.BBox.X0, w.BBox.Y1 - w.BBox.Y0, Color(0, 0, 0))

words_TextOrganizer ==
    /\ impl = "words"
    /\ page.by = ""
    /\ page' = [page EXCEPT !.by = "TextOrganizer",
                            !.words = ExtractWords(NewTextOrganizer, page.chars)]
    /\ UNCHANGED <<impl, fuel, operands, last, p, e, hist, tz, cmapRun, doc, calc, lx>>

words_LedongthucPage ==
    /\ impl = "words"
    /\ page.by = ""
    /\ page' = [page EXCEPT !.by = "LedongthucPage",
                            !.words = LedongthucPage_ExtractWords(page.chars,
                                          DefaultWordExtractionConfig)]
    /\ UNCHANGED <<impl, fuel, operands, last, p, e, hist, tz, cmapRun, doc, calc, lx>>

words_PDFCPUPage ==
    /\ impl = "words"
    /\ page.by = ""
    /\ page' = [page EXCEPT !.by = "PDFCPUPage",
                            !.words = PDFCPUPage_ExtractWords(page.chars,
                                          DefaultWordExtractionConfig)]
    /\ UNCHANGED <<impl, fuel, operands, last, p, e, hist, tz, cmapRun, doc, calc, lx>>

words_TextOrganizerAgain ==
    /\ impl = "words"
    /\ page.by = "TextOrganizer"
    /\ ~page.reran
    /\ page' = [page EXCEPT !.reran = TRUE,
                            !.again = ExtractWords(NewTextOrganizer,
                                          [k \in DOMAIN page.words |-> WordAsChar(page.words[k])])]
    /\ UNCHANGED <<impl, fuel, operands, last, p, e, hist, tz, cmapRun, doc, calc, lx>>

InitWords ==
    /\ impl = "words"
    /\ fuel = 0
    /\ operands = <<>>
    /\ last = NoLast
    /\ p = NewContentStreamParser
    /\ e = NewContentExtractor
    /\ hist = NewHist(0)
    /\ tz = NoTokenizer
    /\ cmapRun = NoCMapRun
    /\ page \in {[NoPage EXCEPT !.chars = chars] : chars \in PageChars}
    /\ doc = NoDoc
    /\ calc = NoCalc
    /\ lx = NoLexer

NextWords ==
    words_TextOrganizer \/ words_LedongthucPage \/ words_PDFCPUPage \/ words_TextOrganizerAgain
SpecWords == InitWords /\ [][NextWords]_vars

----------------------------------------------------------------------------
(* Table extraction from the lines, rectangles and characters of a page *)

HLine(y) == LineObject(Fix(50), y, Fix(250), y, Fix(1), Color(0, 0, 0))
VLine(x) == LineObject(x, Fix(100), x, Fix(160), Fix(1), Color(0, 0, 0))

\* horizontal rules: any of y = 100, 120, 140, 160, each spanning x in [50, 250]
HLineSets == SUBSET {Fix(100), Fix(120), Fix(140), Fix(160)}
\* vertical rules, each spanning y in [100, 160]
VLineSets ==
    { {}, {Fix(50), Fix(150), Fix(250)}, {Fix(50), Fix(70)}, {Fix(50), Fix(70), Fix(90)},
      {Fix(50), Fix(70), Fix(90), Fix(250)} }

PageLines(ys, xs) ==
    [k \in 1..Cardinality(ys) |-> HLine(SortFloat64s(ys)[k])]
        \o [k \in 1..Cardinality(xs) |-> VLine(SortFloat64s(xs)[k])]

\* text: one character 5 wide and 10 high at each chosen row and column
TextRowSets == SUBSET {Fix(105), Fix(125), Fix(145)}
TextColumnSets == {{}, {Fix(55)}, {Fix(55), Fix(75)}}
TableLetters == <<"a", "b", "c", "d", "e", "f">>

TextChar(x, y) ==
    CharObject(<<TableLetters[2 * ((y - Fix(105)) \div Fix(20)) + ((x - Fix(55)) \div Fix(20)) + 1]>>,
               "F1", Fix(10), x, y, x + Fix(5), y + Fix(10), Fix(5), Fix(10), Color(0, 0, 0))

PageText(ys, xs) ==
    [n \in 1..(Cardinality(ys) * Cardinality(xs)) |->
        TextChar(SortFloat64s(xs)[((n - 1) % Cardinality(xs)) + 1],
                 SortFloat64s(ys)[((n - 1) \div Cardinality(xs)) + 1])]

\* four filled rectangles, one for each row of a table
RowRects ==
    [k \in 1..4 |->
        RectObject(Fix(50), Fix(80 + 20 * k), Fix(250), Fix(100 + 20 * k), 0,
                   Color(0, 0, 0), Color(200, 200, 200), TRUE, FALSE, FALSE)]

Strategies == {"lines", "text"}

PageObjects == [Chars |-> page.chars, Lines |-> page.lines, Rects |-> page.rects]
\* Page.ExtractWords with no option
PageWords == LedongthucPage_ExtractWords(page.chars, DefaultWordExtractionConfig)

tables_ExtractTables ==
    /\ impl = "tables"
    /\ page.by = ""
    /\ \E verticalStrategy \in Strategies, horizontalStrategy \in Strategies :
          LET te == newTableExtractor(verticalStrategy, horizontalStrategy)
          IN  page' = [page EXCEPT
                          !.by = "tableExtractor",
                          !.te = te,
                          !.tables = ExtractTables(te, PageObjects, PageWords),
                          !.rects = IF verticalStrategy = "lines" \/ horizontalStrategy = "lines"
                                    THEN lineBasedRowTable(te, PageObjects).rects
                                    ELSE @]
    /\ UNCHANGED <<impl, fuel, operands, last, p, e, hist, tz, cmapRun, doc, calc, lx>>

\* ExtractTables of the earlier copy of the file
tables_ExtractTablesEarlier ==
    /\ impl = "tables"
    /\ page.by = ""
    /\ \E verticalStrategy \in Strategies, horizontalStrategy \in Strategies :
          LET te == newTableExtractor(verticalStrategy, horizontalStrategy)
          IN  page' = [page EXCEPT
                          !.by = "tableExtractorEarlier",
                          !.te = te,
                          !.tables = Earlier_ExtractTables(te, PageObjects)]
    /\ UNCHANGED <<impl, fuel, operands, last, p, e, hist, tz, cmapRun, doc, calc, lx>>

InitTables ==
    /\ impl = "tables"
    /\ fuel = 0
    /\ operands = <<>>
    /\ last = NoLast
    /\ p = NewContentStreamParser
    /\ e = NewContentExtractor
    /\ hist = NewHist(0)
    /\ tz = NoTokenizer
    /\ cmapRun = NoCMapRun
    /\ page \in {[NoPage EXCEPT !.lines = PageLines(hs, vs), !.chars = PageText(ys, xs),
                                !.rects = rects] :
                    hs \in HLineSets, vs \in VLineSets, ys \in TextRowSets,
                    xs \in TextColumnSets, rects \in {<<>>, RowRects}}
    /\ doc = NoDoc
    /\ calc = NoCalc
    /\ lx = NoLexer

NextTables ==
    \/ tables_ExtractTables
    \/ tables_ExtractTablesEarlier
SpecTables == InitTables /\ [][NextTables]_vars

----------------------------------------------------------------------------
(* Two pages of one document, interpreted by two goroutines with no
   synchronisation between them.  Each goroutine has its own interpreter:
   a content.ContentExtractor on a parser.PDFPage, or a
   pdf.ContentStreamParser made by PDFCPUPage.GetObjects.  What the two may
   share is the document: parser.PDFDocument with its map Objects (which is
   the map objects of its PDFParser), or the model.Context of pdfcpu.
   doc.proc[i] is goroutine i: where it is, and the objects it has read
   and written so far. *)

Pages == {1, 2}

\* an object of the program: owner 0 is the document, owner i is page i and
\* its interpreter
Loc(owner, obj) == [owner |-> owner, obj |-> obj]

\* an entry of a page's font dictionary: the reference of the font object
\* and of its ToUnicode stream (0: the font has none)
FontEntry(name, ref, toUnicode) == [name |-> name, ref |-> ref, toUnicode |-> toUnicode]
FontDicts ==
    {<<>>, <<FontEntry("F1", 10, 20)>>, <<FontEntry("F2", 11, 0)>>,
     <<FontEntry("F1", 10, 20), FontEntry("F2", 11, 0)>>}
FontRefs == {10, 11, 20}

NewProc == [pc |-> "start", k |-> 1, ref |-> 0, reads |-> {}, writes |-> {}]

Access(d, i, pc, k, ref, reads, writes) ==
    [d EXCEPT !.proc[i] = [pc |-> pc, k |-> k, ref |-> ref,
                            reads |-> @.reads \cup reads, writes |-> @.writes \cup writes]]

\* the objects NewContentExtractor allocates, all of them the extractor's own
ExtractorFields == {"stateStack", "chars", "lines", "rects", "curves", "fonts"}

\* NewContentExtractor(page)
pages_NewContentExtractor ==
    /\ impl = "pages"
    /\ doc.kind = "ContentExtractor"
    /\ \E i \in Pages :
          /\ doc.proc[i].pc = "start"
          /\ doc' = Access(doc, i, "loadFonts", 1, 0, {},
                           {Loc(i, f) : f \in ExtractorFields})
    /\ UNCHANGED <<impl, fuel, operands, last, p, e, hist, tz, cmapRun, page, calc, lx>>

\* Extract, loadFonts: the next entry of page.Resources' font dictionary;
\* after the last one the content streams are processed
pages_loadFonts ==
    /\ impl = "pages"
    /\ \E i \in Pages :
          /\ doc.proc[i].pc = "loadFonts"
          /\ doc' = IF doc.proc[i].k > Len(doc.Font[i])
                    THEN Access(doc, i, "process", doc.proc[i].k, 0,
                                {Loc(i, "Resources")}, {})
                    ELSE Access(doc, i, "GetObject", doc.proc[i].k,
                                doc.Font[i][doc.proc[i].k].ref, {Loc(i, "Resources")}, {})
    /\ UNCHANGED <<impl, fuel, operands, last, p, e, hist, tz, cmapRun, page, calc, lx>>

\* what loadFonts does with the object of reference ref once it has it: with
\* the font it goes on to the ToUnicode stream, if the font names one; then
\* it parses the CMap of the stream and puts the FontInfo into e.fonts
AfterGetObject(d, i, reads, writes) ==
    LET entry == d.Font[i][d.proc[i].k]
    IN  IF d.proc[i].ref = entry.ref /\ entry.toUnicode # 0
        THEN Access(d, i, "GetObject", d.proc[i].k, entry.toUnicode, reads, writes)
        ELSE Access(d, i, "loadFonts", d.proc[i].k + 1, 0,
                    reads, writes \cup {Loc(i, "fonts")})

\* PDFDocument.GetObject, the object is in d.Objects
pages_GetObject_Loaded ==
    /\ impl = "pages"
    /\ \E i \in Pages :
          /\ doc.proc[i].pc = "GetObject"
          /\ doc.proc[i].ref \in doc.Objects
          /\ doc' = AfterGetObject(doc, i, {Loc(0, "Objects")}, {})
    /\ UNCHANGED <<impl, fuel, operands, last, p, e, hist, tz, cmapRun, page, calc, lx>>

\* PDFDocument.GetObject, the object is not in d.Objects: PDFParser.GetObject
\* looks into p.objects, which is the same map, and reads the object from
\* the file
pages_GetObject_Missing ==
    /\ impl = "pages"
    /\ \E i \in Pages :
          /\ doc.proc[i].pc = "GetObject"
          /\ doc.proc[i].ref \notin doc.Objects
          /\ doc' = Access(doc, i, "cache", doc.proc[i].k, doc.proc[i].ref,
                           {Loc(0, "Objects"), Loc(0, "xref"), Loc(0, "reader")}, {})
    /\ UNCHANGED <<impl, fuel, operands, last, p, e, hist, tz, cmapRun, page, calc, lx>>

\* PDFParser.GetObject, p.objects[ref] = obj, and PDFDocument.GetObject,
\* d.Objects[ref] = obj
pages_GetObject_Cache ==
    /\ impl = "pages"
    /\ \E i \in Pages :
          /\ doc.proc[i].pc = "cache"
          /\ doc' = AfterGetObject([doc EXCEPT !.Objects = @ \cup {doc.proc[i].ref}], i,
                                   {}, {Loc(0, "Objects")})
    /\ UNCHANGED <<impl, fuel, operands, last, p, e, hist, tz, cmapRun, page, calc, lx>>

\* Extract: processContentStream on the data of every content stream
pages_processContentStream ==
    /\ impl = "pages"
    /\ \E i \in Pages :
          /\ doc.proc[i].pc = "process"
          /\ doc' = Access(doc, i, "done", doc.proc[i].k, 0,
                           {Loc(i, "Contents"), Loc(i, "fonts")},
                           {Loc(i, f) : f \in ExtractorFields \ {"fonts"}})
    /\ UNCHANGED <<impl, fuel, operands, last, p, e, hist, tz, cmapRun, page, calc, lx>>

\* PDFCPUPage.GetObjects when the page has not been parsed, and
\* NewContentStreamParser(p.ctx, p.pageDict)
pages_NewContentStreamParser ==
    /\ impl = "pages"
    /\ doc.kind = "ContentStreamParser"
    /\ \E i \in Pages :
          /\ doc.proc[i].pc = "start"
          /\ doc' = Access(doc, i, "extractFonts", 1, 0,
                           {Loc(i, "objects"), Loc(i, "content"), Loc(i, "pageDict")},
                           {Loc(i, "parser")})
    /\ UNCHANGED <<impl, fuel, operands, last, p, e, hist, tz, cmapRun, page, calc, lx>>

\* extractFonts: the next font of the resources, dereferenced through p.ctx,
\* and p.fonts[name] = fontInfo
pages_extractFonts ==
    /\ impl = "pages"
    /\ \E i \in Pages :
          /\ doc.proc[i].pc = "extractFonts"
          /\ doc' = IF doc.proc[i].k > Len(doc.Font[i])
                    THEN Access(doc, i, "Parse", doc.proc[i].k, 0, {Loc(i, "pageDict")}, {})
                    ELSE Access(doc, i, "extractFonts", doc.proc[i].k + 1, 0,
                                {Loc(i, "pageDict"), Loc(0, "ctx")}, {Loc(i, "parser")})
    /\ UNCHANGED <<impl, fuel, operands, last, p, e, hist, tz, cmapRun, page, calc, lx>>

\* p.objects = parser.Parse(p.content)
pages_Parse ==
    /\ impl = "pages"
    /\ \E i \in Pages :
          /\ doc.proc[i].pc = "Parse"
          /\ doc' = Access(doc, i, "done", doc.proc[i].k, 0,
                           {Loc(i, "content"), Loc(i, "parser")},
                           {Loc(i, "parser"), Loc(i, "objects")})
    /\ UNCHANGED <<impl, fuel, operands, last, p, e, hist, tz, cmapRun, page, calc, lx>>

InitPages ==
    /\ impl = "pages"
    /\ fuel = 0
    /\ operands = <<>>
    /\ last = NoLast
    /\ p = NewContentStreamParser
    /\ e = NewContentExtractor
    /\ hist = NewHist(0)
    /\ tz = NoTokenizer
    /\ cmapRun = NoCMapRun
    /\ page = NoPage
    /\ doc \in {[kind |-> kind, Objects |-> objects, Font |-> <<f1, f2>>,
                 proc |-> <<NewProc, NewProc>>] :
                   kind \in {"ContentExtractor", "ContentStreamParser"},
                   objects \in SUBSET FontRefs, f1 \in FontDicts, f2 \in FontDicts}
    /\ calc = NoCalc
    /\ lx = NoLexer

NextPages ==
    \/ pages_NewContentExtractor
    \/ pages_loadFonts
    \/ pages_GetObject_Loaded
    \/ pages_GetObject_Missing
    \/ pages_GetObject_Cache
    \/ pages_processContentStream
    \/ pages_NewContentStreamParser
    \/ pages_extractFonts
    \/ pages_Parse
SpecPages == InitPages /\ [][NextPages]_vars

----------------------------------------------------------------------------
(* Matrix products: three matrices, composed both ways, and each composed
   with the identity, by Matrix.Multiply or by MultiplyMatrix *)

\* translation, scalings, a rotation by 90 degrees, and three matrices with
\* entries that are not whole numbers (0.25, 0.5, 1.5)
Matrices ==
    {IdentityMatrix,
     Matrix(Fix(1), 0, 0, Fix(1), Fix(10), Fix(5)),
     Matrix(Fix(2), 0, 0, Fix(3), 0, 0),
     Matrix(0, Fix(1), 0 - Fix(1), 0, 0, 0),
     Matrix(Fix(2), 0, 0, Fix(2), Fix(3), 0),
     Matrix(25, 0, 0, 50, 0, 0),
     Matrix(50, 0, 0, 50, 150, 0),
     Matrix(150, 0, 0, 25, 0, 75)}

Products(by, A, B, C, compose(_, _)) ==
    [by |-> by, A |-> A, B |-> B, C |-> C,
     left      |-> compose(compose(A, B), C),
     right     |-> compose(A, compose(B, C)),
     unitLeft  |-> compose(IdentityMatrix, A),
     unitRight |-> compose(A, IdentityMatrix)]

calc_Multiply ==
    /\ impl = "matrix"
    /\ calc.by = ""
    /\ calc' = Products("Multiply", calc.A, calc.B, calc.C, Multiply)
    /\ UNCHANGED <<impl, fuel, operands, last, p, e, hist, tz, cmapRun, page, doc, lx>>

calc_MultiplyMatrix ==
    /\ impl = "matrix"
    /\ calc.by = ""
    /\ calc' = Products("MultiplyMatrix", calc.A, calc.B, calc.C, MultiplyMatrix)
    /\ UNCHANGED <<impl, fuel, operands, last, p, e, hist, tz, cmapRun, page, doc, lx>>

InitMatrix ==
    /\ impl = "matrix"
    /\ fuel = 0
    /\ operands = <<>>
    /\ last = NoLast
    /\ p = NewContentStreamParser
    /\ e = NewContentExtractor
    /\ hist = NewHist(0)
    /\ tz = NoTokenizer
    /\ cmapRun = NoCMapRun
    /\ page = NoPage
    /\ doc = NoDoc
    /\ calc \in {[NoCalc EXCEPT !.A = A, !.B = B, !.C = C] :
                    A \in Matrices, B \in Matrices, C \in Matrices}
    /\ lx = NoLexer

NextMatrix == calc_Multiply \/ calc_MultiplyMatrix
SpecMatrix == InitMatrix /\ [][NextMatrix]_vars

----------------------------------------------------------------------------
(* parser.Lexer and PDFParser.parseObject.  The stream is the sequence of   *)
(* its lexemes; a lexeme is the token NextToken makes of it, or one that    *)
(* NextToken answers with an error (Type "bad").                            *)

Token(type, value) == [Type |-> type, Value |-> value]
Nil == [k |-> "nil", v |-> 0]
PDFInt(i) == [k |-> "int", v |-> i]
PDFFloat(f) == [k |-> "float", v |-> f]
PDFName == [k |-> "name", v |-> 0]
ObjectRef(number, generation) == [k |-> "ref", v |-> number, g |-> generation]
PDFArray(elems) == [k |-> "array", v |-> 0, elems |-> elems]

TokenEOF == Token("EOF", Nil)
TokenRef == Token("Ref", Nil)
TokenArrayStart == Token("ArrayStart", Nil)
TokenArrayEnd == Token("ArrayEnd", Nil)

UnreadToken(l, token) ==
    [l EXCEPT !.pushedTokens = Append(@, token), !.unreads = @ + 1]

\* NextToken that takes the pushed token that was pushed first
Lexer_NextToken_Oldest(l) ==
    IF Len(l.pushedTokens) > 0
    THEN [l |-> [l EXCEPT !.pushedTokens = Tail(@)],
          token |-> Head(l.pushedTokens), err |-> FALSE]
    ELSE IF l.stream = <<>>
    THEN [l |-> l, token |-> TokenEOF, err |-> FALSE]
    ELSE IF Head(l.stream).Type = "bad"
    THEN [l |-> [l EXCEPT !.stream = Tail(@)], token |-> TokenEOF, err |-> TRUE]
    ELSE [l |-> [l EXCEPT !.stream = Tail(@)], token |-> Head(l.stream), err |-> FALSE]

Lexer_NextToken(l) ==
    IF Len(l.pushedTokens) > 0
    THEN [l |-> [l EXCEPT !.pushedTokens = SubSeq(@, 1, Len(@) - 1)],
          token |-> l.pushedTokens[Len(l.pushedTokens)], err |-> FALSE]
    ELSE IF l.stream = <<>>
    THEN [l |-> l, token |-> TokenEOF, err |-> FALSE]
    ELSE IF Head(l.stream).Type = "bad"
    THEN [l |-> [l EXCEPT !.stream = Tail(@)], token |-> TokenEOF, err |-> TRUE]
    ELSE [l |-> [l EXCEPT !.stream = Tail(@)], token |-> Head(l.stream), err |-> FALSE]

Parsed(l, obj, err) == [l |-> l, obj |-> obj, err |-> err]

RECURSIVE parseObject(_)
RECURSIVE parseArray(_, _)

\* err is "" for nil; int(num1.(PDFInt)) panics when num1 is a PDFFloat
parseObject(lexer) ==
    LET r1 == Lexer_NextToken(lexer)
        token == r1.token
    IN  IF r1.err THEN Parsed(r1.l, Nil, "lexer")
        ELSE IF token.Type = "EOF" THEN Parsed(r1.l, Nil, "EOF")
        ELSE IF token.Type = "Number"
        THEN LET num1 == token.Value
                 r2 == Lexer_NextToken(r1.l)
                 token2 == r2.token
             IN  IF r2.err THEN Parsed(r2.l, num1, "")
                 ELSE IF token2.Value.k = "int"
                 THEN LET r3 == Lexer_NextToken(r2.l)
                          token3 == r3.token
                      IN  IF r3.err THEN Parsed(UnreadToken(r3.l, token2), num1, "")
                          ELSE IF token3.Type = "Ref"
                          THEN IF num1.k = "int"
                               THEN Parsed(r3.l, ObjectRef(num1.v, token2.Value.v), "")
                               ELSE Parsed(r3.l, Nil, "panic")
                          ELSE Parsed(UnreadToken(UnreadToken(r3.l, token3), token2), num1, "")
                 ELSE Parsed(UnreadToken(r2.l, token2), num1, "")
        ELSE IF token.Type = "Name" THEN Parsed(r1.l, token.Value, "")
        ELSE IF token.Type = "ArrayStart" THEN parseArray(r1.l, <<>>)
        ELSE Parsed(r1.l, Nil, "unexpected token type")

\* the loop of parseArray, with the elements parsed so far
parseArray(lexer, array) ==
    LET r == Lexer_NextToken(lexer)
    IN  IF r.err THEN Parsed(r.l, Nil, "lexer")
        ELSE IF r.token.Type = "ArrayEnd" THEN Parsed(r.l, PDFArray(array), "")
        ELSE LET o == parseObject(UnreadToken(r.l, r.token))
             IN  IF o.err # "" THEN Parsed(o.l, Nil, o.err)
                 ELSE parseArray(o.l, Append(array, o.obj))

\* a caller parses the next object of the stream
lx_parseObject ==
    /\ impl = "lexer"
    /\ lx.err = ""
    /\ LET r == parseObject(lx.l)
       IN  lx' = [lx EXCEPT !.l = r.l,
                            !.out = IF r.err = "" THEN Append(@, r.obj) ELSE @,
                            !.err = r.err]
    /\ UNCHANGED <<impl, fuel, operands, last, p, e, hist, tz, cmapRun, page, doc, calc>>

\* a caller reads the next token itself, as GetObject does around the object
lx_NextToken ==
    /\ impl = "lexer"
    /\ lx.err = ""
    /\ LET r == Lexer_NextToken(lx.l)
       IN  lx' = [lx EXCEPT !.l = r.l,
                            !.out = IF ~r.err /\ r.token.Type # "EOF"
                                    THEN Append(@, r.token.Value) ELSE @,
                            !.err = IF r.err THEN "lexer"
                                    ELSE IF r.token.Type = "EOF" THEN "EOF" ELSE ""]
    /\ UNCHANGED <<impl, fuel, operands, last, p, e, hist, tz, cmapRun, page, doc, calc>>

MaxTokens == 4

Lexemes ==
    {Token("Number", PDFInt(1)), Token("Number", PDFInt(2)), Token("Number", PDFFloat(150)),
     TokenRef, Token("Name", PDFName), Token("bad", Nil)}

RECURSIVE StreamsOf(_)
StreamsOf(n) ==
    IF n = 0 THEN {<<>>}
    ELSE LET shorter == StreamsOf(n - 1)
         IN  shorter \cup {Append(st, x) : st \in shorter, x \in Lexemes}

\* a stream of up to MaxTokens lexemes, bare or between [ and ]
InitLexer ==
    /\ impl = "lexer"
    /\ fuel = 0
    /\ operands = <<>>
    /\ last = NoLast
    /\ p = NewContentStreamParser
    /\ e = NewContentExtractor
    /\ hist = NewHist(0)
    /\ tz = NoTokenizer
    /\ cmapRun = NoCMapRun
    /\ page = NoPage
    /\ doc = NoDoc
    /\ calc = NoCalc
    /\ \E st \in StreamsOf(MaxTokens) :
         \E input \in {st, <<TokenArrayStart>> \o st \o <<TokenArrayEnd>>} :
            lx = [NoLexer EXCEPT !.l.stream = input, !.input = input]

NextLexer == lx_parseObject \/ lx_NextToken
SpecLexer == InitLexer /\ [][NextLexer]_vars

----------------------------------------------------------------------------
(* Properties *)

\* this step dispatched the operator op
Dispatched(op) == fuel' < fuel /\ last'.op = op

\* C1: each Q restores exactly the graphics state that was current when its
\* matching q was processed, and a Q with no matching q leaves the current
\* state unchanged.
C1_RestoreMatchingSave ==
    [][Dispatched("Q") =>
        CurState' = IF hist.saved # <<>> THEN hist.saved[Len(hist.saved)] ELSE CurState]_vars

\* a Q has just undone a change made to the state after its matching q
C1_Witness == last.op = "Q" /\ hist.undone

\* C2: q saves a deep copy: whatever is done to the current state after a q,
\* every saved state still on the stack equals, field by field and element by
\* element, the state at the time of its q.
C2_SavedCopiesIntact ==
    /\ impl = "parser" =>
        /\ Len(p.stateStack) = Len(hist.saved)
        /\ \A i \in 1..Len(hist.saved) : p.heap[p.stateStack[i]] = hist.saved[i]
    /\ impl = "extractor" =>
        /\ Len(e.stateStack.states) = Len(hist.saved) + 1
        /\ \A i \in 1..Len(hist.saved) :
                e.stateStack.heap[e.stateStack.states[i]] = hist.saved[i]

\* after a q, the CTM and an owned collection of the current state (the dash
\* pattern of the parser, the fill color of the extractor) have been changed
C2_Witness ==
    /\ Len(hist.saved) > 0
    /\ hist.saved[1].CTM # CurState.CTM
    /\ \/ impl = "parser" /\ hist.saved[1].DashPattern # CurState.DashPattern
       \/ impl = "extractor" /\ hist.saved[1].FillColor # CurState.FillColor

\* the number of operands of each operator
ArityOf(op) ==
    CASE op \in {"cm", "Tm", "c"} -> 6
      [] op \in {"re", "v", "y", "K", "k"} -> 4
      [] op \in {"rg", "RG", "\""} -> 3
      [] op \in {"m", "l", "Td", "TD", "Tf", "d"} -> 2
      [] op \in {"w", "J", "j", "M", "g", "G", "Tj", "TJ", "'",
                 "Tc", "Tw", "Tz", "TL", "Tr", "Ts"} -> 1
      [] OTHER -> 0

\* C3: an operator that receives fewer operands than its arity has no effect:
\* graphics state, text state, text matrices, path and emitted primitives are
\* what they were before it.
C3_ShortOperandsNoEffect ==
    [][(fuel' < fuel /\ Len(last'.args) < ArityOf(last'.op)) => (p' = p /\ e' = e)]_vars

\* C4: an operator outside the recognized set is ignored together with its
\* preceding operands: a recognized operator is dispatched with only its own
\* operands.
C4_OwnOperandsOnly == last.args = last.own

\* C5: no malformed instruction aborts the page: while instructions remain in
\* the stream, the interpreter is still processing them.
C5_NeverAborts == (impl \in {"parser", "extractor"} /\ fuel > 0) => Running

\* C6: each tokenizer step consumes at least one input byte or reaches the end
\* of the input, so tokenization of a finite byte sequence terminates.
C6_TokenizeProgress ==
    [][impl = "tokenizer" => (tz'.i > tz.i \/ tz'.i >= Len(tz.data))]_vars

\* C7: cm with operand matrix M sets the CTM to M x old CTM.
C7_LeftMultiply ==
    [][(Dispatched("cm") /\ Len(last'.args) = 6) =>
        LET a == last'.args
            M == Matrix(toFloat(a[1]), toFloat(a[2]), toFloat(a[3]),
                        toFloat(a[4]), toFloat(a[5]), toFloat(a[6]))
        IN  (CurState').CTM = MultiplyMatrix(M, CurState.CTM)]_vars

\* the user-space points a painted line can join: those of the path, and the
\* origin, where a path that starts without m starts
UserPoints == <<Point(0, 0)>> \o hist.userPts

\* C8: every line primitive is emitted by a painting operator, and its end
\* points are user-space points of the path transformed with the CTM in effect
\* when that painting operator runs; no rectangle is emitted by a construction
\* operator.
C8_DeviceCoordsAtPaintTime ==
    [][/\ \A k \in (Len(Lines) + 1)..Len(Lines') :
            /\ last'.op \in PaintOps
            /\ \E a, b \in 1..Len(UserPoints) :
                LET ln == (Lines')[k]
                    pa == Transform(CurState.CTM, UserPoints[a].X, UserPoints[a].Y)
                    pb == Transform(CurState.CTM, UserPoints[b].X, UserPoints[b].Y)
                IN  ln.X0 = pa.X /\ ln.Y0 = pa.Y /\ ln.X1 = pb.X /\ ln.Y1 = pb.Y
       /\ Len(Rects') > Len(Rects) => last'.op \in PaintOps]_vars

\* C9: after n or a painting operator the accumulated path is empty, so the
\* path never holds a segment built before the last n or painting operator.
C9_PathOnlySinceLastPaint == Len(CurPath) <= hist.built

\* BT /F1 12 Tf 100 700 Td (Hi) Tj ET
HiStream ==
    << <<"BT", <<>>>>, <<"Tf", <<F1, Num(12)>>>>, <<"Td", <<Num(100), Num(700)>>>>,
       <<"Tj", <<Hi>>>>, <<"ET", <<>>>> >>

\* C10: interpreting BT /F1 12 Tf 100 700 Td (Hi) Tj ET, F1 present without a
\* CMap, emits exactly 2 characters, the first at x = 100 and the second at
\* x = 100 + widthOf('H') x 12.
C10_HiEmitsTwoChars ==
    hist.trace = HiStream =>
        /\ Len(Chars) = 2
        /\ Chars[1].X0 = Fix(100)
        /\ Chars[2].X0 = Fix(100) + MulF(getCharWidth("H"), Fix(12))

\* C11: the state saved by q and restored by Q includes the text sub-state:
\* after the matching Q, font, font size, character and word spacing,
\* horizontal scale, leading, rise and render mode are what they were at the q.
C11_TextSubStateRestored ==
    [][(Dispatched("Q") /\ hist.savedText # <<>>) =>
        TextSub' = hist.savedText[Len(hist.savedText)]]_vars

----------------------------------------------------------------------------
(* Properties of the ToUnicode CMap *)

\* the indexes of the ranges of the parsed CMap that contain cid
Containing(cid) ==
    {k \in 1..Len(cmapRun.obj.ranges) :
        cmapRun.obj.ranges[k].startCID <= cid /\ cid <= cmapRun.obj.ranges[k].endCID}

\* C12: a lookup answers from the direct table when the CID has a direct entry;
\* otherwise from the first range, in insertion order, that contains the CID;
\* otherwise it reports the CID as not found.
C12_DirectThenFirstRange ==
    cmapRun.call.fn = "MapCIDToUnicode" =>
        LET cid   == cmapRun.call.cid
            first == CHOOSE k \in Containing(cid) : \A j \in Containing(cid) : k <= j
            r     == cmapRun.obj.ranges[first]
        IN  cmapRun.call.found =
                IF cid \in DOMAIN cmapRun.obj.cidToUnicode
                THEN [unicode |-> cmapRun.obj.cidToUnicode[cid], ok |-> TRUE]
                ELSE IF Containing(cid) # {}
                THEN [unicode |-> RuneString((r.startUnicode + (cid - r.startCID)) % 65536),
                      ok |-> TRUE]
                ELSE NotFound

\* a CID with no direct entry, looked up in a CMap that has
\* two ranges that contain the CID and map it differently
C12_Witness ==
    /\ cmapRun.call.fn = "MapCIDToUnicode"
    /\ cmapRun.call.cid \notin DOMAIN cmapRun.obj.cidToUnicode
    /\ Cardinality(Containing(cmapRun.call.cid)) = 2
    /\ \E j, k \in Containing(cmapRun.call.cid) :
          cmapRun.obj.ranges[j].startUnicode - cmapRun.obj.ranges[j].startCID
              # cmapRun.obj.ranges[k].startUnicode - cmapRun.obj.ranges[k].startCID
    /\ cmapRun.call.found.ok

\* C13: after parsing  beginbfchar <0001> <0041> endbfchar  the lookup of CID 1
\* finds "A"; after parsing  beginbfrange <0001> <0005> <0041> endbfrange  the
\* lookup of CID 3 finds "C" and the lookup of CID 6 finds nothing.
C13_CMapDeterminism ==
    cmapRun.call.fn = "MapCIDToUnicode" =>
        /\ (cmapRun.blocks = <<BFCharText>> /\ cmapRun.call.cid = 1)
               => cmapRun.call.found = [unicode |-> <<65>>, ok |-> TRUE]
        /\ (cmapRun.blocks = <<BFRangeText>> /\ cmapRun.call.cid = 3)
               => cmapRun.call.found = [unicode |-> <<67>>, ok |-> TRUE]
        /\ (cmapRun.blocks = <<BFRangeText>> /\ cmapRun.call.cid = 6)
               => ~cmapRun.call.found.ok

\* decoding two bytes at a time: a group that is a mapped CID gives its text,
\* any other group gives each of its bytes looked up alone, and a byte that no
\* lookup maps is kept as it is
RECURSIVE TwoByteGroups(_, _)
TwoByteGroups(m, data) ==
    LET single(b) == IF MapCIDToUnicode(m, b).ok THEN MapCIDToUnicode(m, b).unicode ELSE <<b>>
    IN  IF data = <<>> THEN <<>>
        ELSE IF Len(data) = 1 THEN single(data[1])
        ELSE (IF MapCIDToUnicode(m, data[1] * 256 + data[2]).ok
              THEN MapCIDToUnicode(m, data[1] * 256 + data[2]).unicode
              ELSE single(data[1]) \o single(data[2]))
             \o TwoByteGroups(m, SubSeq(data, 3, Len(data)))

\* C14: decoding a buffer takes the input two bytes at a time, decodes a group
\* as one CID when the CID is mapped and as two one-byte lookups otherwise,
\* keeps a byte that no lookup maps, and never drops input: a string operand
\* decodes to the text of its two-byte groups and a hex string that is not
\* empty does not decode to the empty text.
C14_DecodeBufferKeepsInput ==
    /\ cmapRun.call.fn = "decodeString"
          => cmapRun.call.text = TwoByteGroups(cmapRun.obj, cmapRun.call.data)
    /\ (cmapRun.call.fn = "DecodeHexString" /\ cmapRun.call.data # <<>>)
          => cmapRun.call.text # <<>>

\* the index of the first malformed block of the parsed stream (0 if none)
FirstMalformed ==
    IF \E k \in DOMAIN cmapRun.blocks : cmapRun.blocks[k] \in MalformedBlocks
    THEN CHOOSE k \in DOMAIN cmapRun.blocks :
            /\ cmapRun.blocks[k] \in MalformedBlocks
            /\ \A j \in 1..(k - 1) : cmapRun.blocks[j] \notin MalformedBlocks
    ELSE 0

\* C15: when a block of the stream is malformed, Parse returns an error and the
\* CMap holds the entries of the blocks parsed before the malformed one.
C15_MalformedBlockReported ==
    FirstMalformed > 0 =>
        LET before == CMapParse(NewToUnicodeCMap,
                                Content(SubSeq(cmapRun.blocks, 1, FirstMalformed - 1))).cmap
        IN  /\ cmapRun.err # "nil"
            /\ \A cid \in DOMAIN before.cidToUnicode :
                  /\ cid \in DOMAIN cmapRun.obj.cidToUnicode
                  /\ cmapRun.obj.cidToUnicode[cid] = before.cidToUnicode[cid]
            /\ \A k \in DOMAIN before.ranges :
                  \E j \in DOMAIN cmapRun.obj.ranges : cmapRun.obj.ranges[j] = before.ranges[k]

----------------------------------------------------------------------------
(* Properties of word extraction *)

\* b is the character after a on a's line, in x order
NextOnLine(a, b) ==
    /\ a.Y0 = b.Y0
    /\ a.X0 < b.X0
    /\ \A c \in Elems(page.chars) : ~(c.Y0 = a.Y0 /\ a.X0 < c.X0 /\ c.X0 < b.X0)

StartsWord(words, b) == \E k \in DOMAIN words : words[k].Characters[1] = b

\* C16: within a line in x order a character starts a new word exactly when the
\* gap between the right edge of the character before it and its left edge
\* exceeds max(xTolerance, 0.3 x its width); otherwise it stays in the word.
C16_NewWordExactlyOnWideGap ==
    page.by # "" =>
        \A a, b \in Elems(page.chars) :
            NextOnLine(a, b) =>
                (StartsWord(page.words, b)
                    <=> b.X0 - a.X1 > Max(NewTextOrganizer.xTolerance, MulF(b.Width, 30)))

\* C17: extracting words again from the words, each taken as one character
\* with the word's text and bounding box, returns the same words.
C17_ExtractWordsIdempotent ==
    page.reran =>
        /\ Len(page.again) = Len(page.words)
        /\ \A k \in DOMAIN page.words :
              /\ page.again[k].Text = page.words[k].Text
              /\ page.again[k].BBox = page.words[k].BBox

----------------------------------------------------------------------------
(* Properties of table extraction *)

\* what each strategy yields on the page, under the extractor's configuration
LineTables ==
    IF page.te.verticalStrategy = "lines" \/ page.te.horizontalStrategy = "lines"
    THEN extractLineBasedTables(page.te, PageObjects)
    ELSE <<>>
TextTables == extractTextBasedTables(page.te, PageObjects, PageWords)

\* the same of the earlier copy
Earlier_LineTables ==
    IF page.te.verticalStrategy = "lines" \/ page.te.horizontalStrategy = "lines"
    THEN Earlier_extractLineBasedTables(page.te, PageObjects)
    ELSE <<>>
Earlier_TextTables == Earlier_extractTextBasedTables(page.te, PageObjects)

\* C18: the strategies are tried in order: when the line-based strategy yields
\* a table the result is its tables and no text-alignment table; when it
\* yields none the text-alignment strategy runs and the result is what it
\* yields.
C18_TextFallbackExactlyWithoutLineTable ==
    /\ page.by = "tableExtractor" =>
          /\ LineTables # <<>> => page.tables = LineTables
          /\ LineTables = <<>> => page.tables = TextTables
    /\ page.by = "tableExtractorEarlier" =>
          /\ Earlier_LineTables # <<>> => page.tables = Earlier_LineTables
          /\ Earlier_LineTables = <<>> => page.tables = Earlier_TextTables

\* the copy with the table of row rectangles falls back to the text strategy
\* exactly when the line-based strategy yields no table
C18_LaterCopyFallsBack ==
    page.by = "tableExtractor" =>
        /\ LineTables # <<>> => page.tables = LineTables
        /\ LineTables = <<>> => page.tables = TextTables

\* no copy returns a text-alignment table beside a line-based one
C18_NoTextTableBesideLineTable ==
    /\ (page.by = "tableExtractor" /\ LineTables # <<>>) => page.tables = LineTables
    /\ (page.by = "tableExtractorEarlier" /\ Earlier_LineTables # <<>>)
          => page.tables = Earlier_LineTables

\* the table is the table of a region of the page, with one row for each pair
\* of adjacent horizontal positions and one cell for each pair of adjacent
\* vertical positions
GridShaped(table) ==
    \E k \in DOMAIN lineBasedRegions(page.te, PageObjects) :
        LET region == lineBasedRegions(page.te, PageObjects)[k]
        IN  /\ table.BBox = region.BBox
            /\ Len(table.Rows) = Len(region.HLines) - 1
            /\ \A i \in DOMAIN table.Rows : Len(table.Rows[i]) = Len(region.VLines) - 1

\* the line-based strategy returned the table of the row rectangles
RowTableReturned ==
    /\ lineBasedRowTable(page.te, PageObjects).ok
    /\ Len(lineBasedRowTable(page.te, PageObjects).table.Rows) >= page.te.minTableSize

\* C19 as stated: every table the line-based strategy produces has
\* len(horizontalPositions) - 1 rows of len(verticalPositions) - 1 cells.
C19_LineTableGrid ==
    page.by = "tableExtractor" =>
        \A k \in DOMAIN LineTables : GridShaped(LineTables[k])

\* C19: every table the line-based strategy builds from a region of ruling
\* lines (every table it produces other than the table of the row rectangles)
\* has len(horizontalPositions) - 1 rows of len(verticalPositions) - 1 cells.
C19_RegionTableGrid ==
    (page.by = "tableExtractor" /\ ~RowTableReturned) =>
        \A k \in DOMAIN LineTables : GridShaped(LineTables[k])

\* a table of a region, returned, with text in some of its cells only
C19_Witness ==
    /\ page.by = "tableExtractor"
    /\ ~RowTableReturned
    /\ LineTables # <<>>
    /\ page.tables = LineTables
    /\ \E i \in DOMAIN page.tables[1].Rows :
          /\ \E j \in DOMAIN page.tables[1].Rows[i] : page.tables[1].Rows[i][j] = <<>>
          /\ \E j \in DOMAIN page.tables[1].Rows[i] : page.tables[1].Rows[i][j] # <<>>

\* C20: the page with horizontal lines at y = 100, 120, 140, 160 spanning x in
\* [50, 250], vertical lines at x = 50, 150, 250 spanning y in [100, 160] and
\* no text yields exactly one table, of 3 rows of 2 empty cells.
C20_RuledGridScenario ==
    ( /\ page.by \in {"tableExtractor", "tableExtractorEarlier"}
      /\ page.te = newTableExtractor("lines", "lines")
      /\ page.lines = PageLines({Fix(100), Fix(120), Fix(140), Fix(160)},
                                {Fix(50), Fix(150), Fix(250)})
      /\ page.chars = <<>>
      /\ page.rects = <<>> )
    => /\ Len(page.tables) = 1
       /\ page.tables[1].Rows = <<<< <<>>, <<>> >>, << <<>>, <<>> >>, << <<>>, <<>> >>>>

\* C21: every table ExtractTables returns, whichever strategy produced it, has
\* at least one row and a bounding box with X1 > X0 and Y1 > Y0.
C21_TablesWellFormed ==
    page.by \in {"tableExtractor", "tableExtractorEarlier"} =>
        \A k \in DOMAIN page.tables :
            /\ Len(page.tables[k].Rows) >= 1
            /\ page.tables[k].BBox.X1 > page.tables[k].BBox.X0
            /\ page.tables[k].BBox.Y1 > page.tables[k].BBox.Y0

\* the tables of regions and of aligned words are well formed
C21_RegionAndTextTablesWellFormed ==
    (page.by \in {"tableExtractor", "tableExtractorEarlier"} /\ ~RowTableReturned) =>
        \A k \in DOMAIN page.tables :
            /\ Len(page.tables[k].Rows) >= 1
            /\ page.tables[k].BBox.X1 > page.tables[k].BBox.X0
            /\ page.tables[k].BBox.Y1 > page.tables[k].BBox.Y0

\* C22: deriving tables from a page leaves the contents and the order of the
\* page's chars, lines and rects unchanged: GetObjects returns the same
\* collections after ExtractTables as before.
C22_ObjectsUnchangedByExtraction ==
    [][/\ page'.chars = page.chars
       /\ page'.lines = page.lines
       /\ page'.rects = page.rects]_vars

\* the characters and the lines are left as they were
C22_CharsAndLinesUnchanged ==
    [][page'.chars = page.chars /\ page'.lines = page.lines]_vars

----------------------------------------------------------------------------
(* Properties of pages interpreted concurrently *)

\* C23: two pages interpreted concurrently, each by its own interpreter,
\* perform no write to an object that the other page's processing reads or
\* writes.
C23_PagesIndependent ==
    impl = "pages" =>
        \A a \in Pages : \A b \in Pages \ {a} :
            doc.proc[a].writes \cap (doc.proc[b].reads \cup doc.proc[b].writes) = {}

\* the pages interpreted through PDFCPUPage.GetObjects write to objects of
\* their own only
C23_ContentStreamParsersIndependent ==
    (impl = "pages" /\ doc.kind = "ContentStreamParser") =>
        \A a \in Pages : \A written \in doc.proc[a].writes : written.owner = a

----------------------------------------------------------------------------
(* Properties of the interpreter, continued *)

\* the number of saved states above the base state
StackDepth ==
    IF impl = "parser" THEN Len(p.stateStack) ELSE Len(e.stateStack.states) - 1

\* how many of the instructions processed so far were op
RECURSIVE CountOp(_, _)
CountOp(trace, op) ==
    IF trace = <<>> THEN 0
    ELSE (IF trace[1][1] = op THEN 1 ELSE 0) + CountOp(Tail(trace), op)

\* saves less restores, where a Q that finds no saved state is not counted
RECURSIVE Balance(_, _)
Balance(trace, depth) ==
    IF trace = <<>> THEN depth
    ELSE Balance(Tail(trace),
                 IF trace[1][1] = "q" THEN depth + 1
                 ELSE IF trace[1][1] = "Q" THEN Max(0, depth - 1)
                 ELSE depth)

\* C24 as stated: the number of saved states above the base state is
\* saveCount - restoreCount clamped at 0, the counts being those of all the q
\* and Q processed.
C24_DepthIsClampedDifference ==
    impl \in {"parser", "extractor"} =>
        StackDepth = Max(0, CountOp(hist.trace, "q") - CountOp(hist.trace, "Q"))

\* C24: the number of saved states above the base state is the number of q
\* processed less the number of Q processed while a saved state existed: the
\* difference is clamped at 0 after every Q, not once at the end.
C24_DepthIsRunningBalance ==
    impl \in {"parser", "extractor"} => StackDepth = Balance(hist.trace, 0)

\* a Q that found no saved state, then q's and Q's that leave a saved state
C24_Witness ==
    /\ impl \in {"parser", "extractor"}
    /\ Len(hist.trace) >= 4
    /\ hist.trace[1][1] = "Q"
    /\ last.op = "Q"
    /\ StackDepth = 1
    /\ CountOp(hist.trace, "q") = CountOp(hist.trace, "Q")

\* every entry of the matrix is a whole number
IsWhole(m) == \A f \in {"A", "B", "C", "D", "E", "F"} : m[f] % Fix(1) = 0

Apply(sp, ex, op, args) ==
    <<processOperator(sp, op, args), exProcessOperator(ex, op, args)>>

\* the state <<sp, ex>> with word spacing w and character spacing c
WithSpacing(sp, ex, w, c) ==
    <<[sp EXCEPT !.textState.WordSpace = w, !.textState.CharSpace = c],
      [ex EXCEPT !.stateStack.heap[Current(ex.stateStack)] =
            [@ EXCEPT !.WordSpace = w, !.CharSpace = c]]>>

\* what the component that runs has become
Became(pair) == IF impl = "parser" THEN p' = pair[1] ELSE e' = pair[2]

\* C26: ' with a string operand leaves the interpreter as T* followed by Tj of
\* that string does, and " with two numbers and a string leaves it as setting
\* word and character spacing to the two numbers, then T*, then Tj of the string.
C26_QuotesMoveThenShow ==
    [][/\ (Dispatched("'") /\ Len(last'.args) = 1) =>
            LET moved == Apply(p, e, "T*", <<>>)
            IN  Became(Apply(moved[1], moved[2], "Tj", last'.args))
       /\ (Dispatched("\"") /\ Len(last'.args) = 3) =>
            LET spaced == WithSpacing(p, e, toFloat(last'.args[1]), toFloat(last'.args[2]))
                moved == Apply(spaced[1], spaced[2], "T*", <<>>)
            IN  Became(Apply(moved[1], moved[2], "Tj", <<last'.args[3]>>))]_vars

\* the same for the content extractor alone
C26_ExtractorQuotesMoveThenShow ==
    [][impl = "extractor" =>
        /\ (Dispatched("'") /\ Len(last'.args) = 1) =>
            LET moved == Apply(p, e, "T*", <<>>)
            IN  Became(Apply(moved[1], moved[2], "Tj", last'.args))
        /\ (Dispatched("\"") /\ Len(last'.args) = 3) =>
            LET spaced == WithSpacing(p, e, toFloat(last'.args[1]), toFloat(last'.args[2]))
                moved == Apply(spaced[1], spaced[2], "T*", <<>>)
            IN  Became(Apply(moved[1], moved[2], "Tj", <<last'.args[3]>>))]_vars

\* the font table of the component that runs
FontTable == IF impl = "parser" THEN p.fonts ELSE e.fonts

\* C27: after Tf with a name that the font table does not hold and a size, the
\* current font is "no font" and the font size is the size operand.
C27_AbsentFontBecomesNoFont ==
    (last.op = "Tf" /\ Len(last.args) = 2 /\ FontKey(last.args[1]) \notin DOMAIN FontTable) =>
        /\ TextSub.Font = NoFont
        /\ TextSub.FontSize = toFloat(last.args[2])

\* the size half alone: Tf with two operands sets the font size to the second
C27_TfSetsFontSize ==
    (last.op = "Tf" /\ Len(last.args) = 2) => TextSub.FontSize = toFloat(last.args[2])

\* every point lies on a corner of the bounding box of the points
AllOnCorners(pts) ==
    LET b == FoldBounds(pts, 1, [minX |-> 0, maxX |-> 0, minY |-> 0, maxY |-> 0])
    IN  \A i \in 1..Len(pts) :
            /\ pts[i].X \in {b.minX, b.maxX}
            /\ pts[i].Y \in {b.minY, b.maxY}

IsFilledRect(r) == r.Filled \/ r.NonStroking

\* C28: a fill operator appends exactly one filled rectangle when the path
\* accumulated since the last painting operator has points and each of them is
\* on a corner of the bounding box of the path, and appends no rectangle when
\* some point is not.
C28_FillEmitsRectIffCorners ==
    [][Dispatched("f") =>
        IF hist.userPts # <<>> /\ AllOnCorners(hist.userPts)
        THEN /\ Len(Rects') = Len(Rects) + 1
             /\ SubSeq(Rects', 1, Len(Rects)) = Rects
             /\ IsFilledRect((Rects')[Len(Rects')])
        ELSE Rects' = Rects]_vars

\* C29: q and Q leave the accumulated path unchanged, so what was constructed
\* between a q and its Q is still the path when an operator after the Q paints.
C29_PathUnchangedBySaveRestore ==
    [][(Dispatched("q") \/ Dispatched("Q")) => CurPath' = CurPath]_vars

\* the same for the content stream parser alone, and for q in both
C29_ParserPathUnchangedBySaveRestore ==
    [][/\ (impl = "parser" /\ (Dispatched("q") \/ Dispatched("Q"))) => CurPath' = CurPath
       /\ Dispatched("q") => CurPath' = CurPath]_vars

\* the numbers of a sequence of parsed objects, those inside arrays included
RECURSIVE NumbersOf(_)
NumbersOf(objs) ==
    IF objs = <<>> THEN <<>>
    ELSE LET o == Head(objs)
         IN  (IF o.k \in {"int", "float"} THEN <<o>>
              ELSE IF o.k = "array" THEN NumbersOf(o.elems)
              ELSE <<>>) \o NumbersOf(Tail(objs))

\* the values of the Number lexemes of a stream
RECURSIVE NumberValues(_)
NumberValues(stream) ==
    IF stream = <<>> THEN <<>>
    ELSE (IF Head(stream).Type = "Number" THEN <<Head(stream).Value>> ELSE <<>>)
            \o NumberValues(Tail(stream))

\* the stream is a run of numbers, possibly the elements of an array
NumberRun(stream) ==
    \A i \in 1..Len(stream) : stream[i].Type \in {"Number", "ArrayStart", "ArrayEnd"}

IsPrefix(a, b) == Len(a) <= Len(b) /\ SubSeq(b, 1, Len(a)) = a

\* C30: of a run of numbers with no R, the objects delivered so far are the
\* first numbers of the run in stream order, each once, and when the end of
\* the stream is reached they are all the numbers of the run.
C30_NumbersInStreamOrder ==
    (impl = "lexer" /\ NumberRun(lx.input)) =>
        /\ IsPrefix(NumbersOf(lx.out), NumberValues(lx.input))
        /\ lx.err = "EOF" => NumbersOf(lx.out) = NumberValues(lx.input)

\* four numbers were parsed to the end, with tokens pushed back and a pushed
\* token still waiting
C30_Witness ==
    /\ impl = "lexer"
    /\ NumberRun(lx.input)
    /\ Len(NumberValues(lx.input)) = MaxTokens
    /\ lx.err = "EOF"
    /\ lx.l.unreads >= MaxTokens
    /\ NumbersOf(lx.out) = NumberValues(lx.input)
    /\ lx.input[1].Type # "ArrayStart"

============================================================================
